---------------------------- MODULE Spec2Model ----------------------------
(***************************************************************************)
(* The Match Engine of the gitroll repository: the text prefilter, the     *)
(* embedding resolver, the similarity ranker and the explanation           *)
(* generator, as they are coded in                                         *)
(*   src/unnamed/part_003                 (lib/utils: cosineSimilarity,    *)
(*                                         findTopMatches)                 *)
(*   src/lib/storage.ts                   (the candidate store)            *)
(*   src/app/api/search-profiles/route.ts (handlePost, strict variant,     *)
(*                                         lines 487-1015)                 *)
(*   src/unnamed/part_001                 (match-profiles handlePost)      *)
(*                                                                         *)
(* Text is modelled as sequences of one-character strings, so that         *)
(* toLowerCase, trim, split, includes and startsWith are computed on the   *)
(* characters as the JavaScript methods compute them.  Numbers that are    *)
(* fractions in the code (similarities, thresholds) are fixed-point        *)
(* integers in units of 1/Scale.                                           *)
(***************************************************************************)
EXTENDS Integers, Sequences, FiniteSets, TLC

VARIABLES
  store,    \* the 'profiles' collection: documents in natural (insertion) order
  config,   \* process.env: which provider settings are present
  req,      \* per request: the handler's local variables and its position
  users,    \* the 'users' collection: per e-mail address the user document
  rateLimitStore, \* rate-limit.ts: the in-memory Map from key to entry
  clock,    \* Date.now(), in units of ClockUnit milliseconds
  fcall,    \* pure-function specifications: the arguments drawn by Init
  fresult   \* pure-function specifications: the value the function returned

vars == <<store, config, req, users, rateLimitStore, clock, fcall, fresult>>

\* What the handlers of the Match Engine never touch
sideState == <<users, rateLimitStore, clock>>

-----------------------------------------------------------------------------
(* Bounds of the model                                                      *)

\* Longest profile list handed to findTopMatches in SpecRanker.
MaxRankLen == 3
\* Largest topN handed to findTopMatches in SpecRanker.
MaxTopN == 3
\* SpecPrefilter hands the prefilter up to MaxRepeat copies of a list of up to
\* MaxBaseLen profiles.
MaxRepeat == 9
MaxBaseLen == 2

\* Longest list of records appended after the repeated list
MaxTailLen == 1

-----------------------------------------------------------------------------
(* JavaScript string methods on sequences of characters                     *)

Min(S) == CHOOSE x \in S : \A y \in S : x <= y
Max(S) == CHOOSE x \in S : \A y \in S : x >= y

UpperCase == <<"A","B","C","D","E","F","G","H","I","J","K","L","M",
               "N","O","P","Q","R","S","T","U","V","W","X","Y","Z">>
LowerCase == <<"a","b","c","d","e","f","g","h","i","j","k","l","m",
               "n","o","p","q","r","s","t","u","v","w","x","y","z">>

toLowerCaseChar(c) ==
  IF \E i \in 1..26 : UpperCase[i] = c
  THEN LowerCase[CHOOSE i \in 1..26 : UpperCase[i] = c]
  ELSE c

\* String.prototype.toLowerCase
toLowerCase(s) == [i \in 1..Len(s) |-> toLowerCaseChar(s[i])]

\* String.prototype.trim (the only white space of the model is " ")
trim(s) ==
  LET idx == {i \in 1..Len(s) : s[i] # " "}
  IN  IF idx = {} THEN <<>> ELSE SubSeq(s, Min(idx), Max(idx))

\* String.prototype.includes
includes(hay, needle) ==
  \E i \in 0..(Len(hay) - Len(needle)) : SubSeq(hay, i + 1, i + Len(needle)) = needle

\* String.prototype.startsWith
startsWith(s, prefix) ==
  Len(prefix) <= Len(s) /\ SubSeq(s, 1, Len(prefix)) = prefix

\* String.prototype.split(/\s+/): a run of white space separates two tokens;
\* white space at either end leaves an empty token there.
RECURSIVE splitFrom(_, _, _)
splitFrom(s, i, cur) ==
  IF i > Len(s) THEN <<cur>>
  ELSE IF s[i] = " "
       THEN IF i > 1 /\ s[i - 1] = " "
            THEN splitFrom(s, i + 1, cur)
            ELSE <<cur>> \o splitFrom(s, i + 1, <<>>)
       ELSE splitFrom(s, i + 1, Append(cur, s[i]))

split(s) == splitFrom(s, 1, <<>>)

\* Array.prototype.slice(0, n) for n >= 0
slice0(s, n) == SubSeq(s, 1, IF n < Len(s) THEN n ELSE Len(s))

\* A sort that is not stable: elements with equal keys come out in reverse
sortDescendingUnstable(s, keys) ==
  LET n == Len(s)
      pos(i) == Cardinality({j \in 1..n : keys[j] > keys[i]})
                + Cardinality({j \in 1..n : j > i /\ keys[j] = keys[i]}) + 1
  IN  [p \in 1..n |-> s[CHOOSE i \in 1..n : pos(i) = p]]

\* Array.prototype.sort with a comparator "b.key - a.key": descending by key,
\* stable (elements with equal keys keep their order).  keys[i] is the key of s[i].
sortDescending(s, keys) ==
  LET n == Len(s)
      pos(i) == Cardinality({j \in 1..n : keys[j] > keys[i]})
                + Cardinality({j \in 1..n : j < i /\ keys[j] = keys[i]}) + 1
  IN  [p \in 1..n |-> s[CHOOSE i \in 1..n : pos(i) = p]]

industryKeywords ==
  <<
    [industry |-> "construction", keywords |-> <<
      <<"c","o","n","s","t","r","u","c","t","i","o","n">>,  \* 'construction'
      <<"c","o","n","t","r","a","c","t","o","r">>,  \* 'contractor'
      <<"c","o","n","t","r","a","c","t","i","n","g">>,  \* 'contracting'
      <<"b","u","i","l","d","i","n","g">>,  \* 'building'
      <<"c","i","v","i","l">>,  \* 'civil'
      <<"e","n","g","i","n","e","e","r","i","n","g">>,  \* 'engineering'
      <<"i","n","f","r","a","s","t","r","u","c","t","u","r","e">>,  \* 'infrastructure'
      <<"d","e","v","e","l","o","p","m","e","n","t">>,  \* 'development'
      <<"p","r","o","j","e","c","t">>,  \* 'project'
      <<"s","i","t","e">>,  \* 'site'
      <<"a","r","c","h","i","t","e","c","t">>,  \* 'architect'
      <<"a","r","c","h","i","t","e","c","t","u","r","a","l">>  \* 'architectural'
    >>],
    [industry |-> "technology", keywords |-> <<
      <<"s","o","f","t","w","a","r","e">>,  \* 'software'
      <<"t","e","c","h">>,  \* 'tech'
      <<"t","e","c","h","n","o","l","o","g","y">>,  \* 'technology'
      <<"d","e","v","e","l","o","p","e","r">>,  \* 'developer'
      <<"e","n","g","i","n","e","e","r">>,  \* 'engineer'
      <<"p","r","o","g","r","a","m","m","i","n","g">>,  \* 'programming'
      <<"c","o","d","i","n","g">>,  \* 'coding'
      <<"d","a","t","a">>,  \* 'data'
      <<"a","i">>,  \* 'ai'
      <<"m","a","c","h","i","n","e">>,  \* 'machine'
      <<"l","e","a","r","n","i","n","g">>,  \* 'learning'
      <<"s","t","a","r","t","u","p">>,  \* 'startup'
      <<"d","i","g","i","t","a","l">>  \* 'digital'
    >>],
    [industry |-> "healthcare", keywords |-> <<
      <<"h","e","a","l","t","h","c","a","r","e">>,  \* 'healthcare'
      <<"m","e","d","i","c","a","l">>,  \* 'medical'
      <<"h","e","a","l","t","h">>,  \* 'health'
      <<"d","o","c","t","o","r">>,  \* 'doctor'
      <<"n","u","r","s","e">>,  \* 'nurse'
      <<"h","o","s","p","i","t","a","l">>,  \* 'hospital'
      <<"c","l","i","n","i","c">>,  \* 'clinic'
      <<"p","h","a","r","m","a","c","e","u","t","i","c","a","l">>,  \* 'pharmaceutical'
      <<"b","i","o","t","e","c","h">>,  \* 'biotech'
      <<"m","e","d","i","c","i","n","e">>  \* 'medicine'
    >>],
    [industry |-> "finance", keywords |-> <<
      <<"f","i","n","a","n","c","e">>,  \* 'finance'
      <<"f","i","n","a","n","c","i","a","l">>,  \* 'financial'
      <<"b","a","n","k","i","n","g">>,  \* 'banking'
      <<"i","n","v","e","s","t","m","e","n","t">>,  \* 'investment'
      <<"t","r","a","d","i","n","g">>,  \* 'trading'
      <<"a","c","c","o","u","n","t","i","n","g">>,  \* 'accounting'
      <<"a","u","d","i","t">>,  \* 'audit'
      <<"r","i","s","k">>,  \* 'risk'
      <<"c","o","m","p","l","i","a","n","c","e">>,  \* 'compliance'
      <<"w","e","a","l","t","h">>  \* 'wealth'
    >>],
    [industry |-> "education", keywords |-> <<
      <<"e","d","u","c","a","t","i","o","n">>,  \* 'education'
      <<"t","e","a","c","h","i","n","g">>,  \* 'teaching'
      <<"a","c","a","d","e","m","i","c">>,  \* 'academic'
      <<"u","n","i","v","e","r","s","i","t","y">>,  \* 'university'
      <<"s","c","h","o","o","l">>,  \* 'school'
      <<"r","e","s","e","a","r","c","h">>,  \* 'research'
      <<"p","r","o","f","e","s","s","o","r">>,  \* 'professor'
      <<"i","n","s","t","r","u","c","t","o","r">>,  \* 'instructor'
      <<"l","e","a","r","n","i","n","g">>  \* 'learning'
    >>],
    [industry |-> "marketing", keywords |-> <<
      <<"m","a","r","k","e","t","i","n","g">>,  \* 'marketing'
      <<"a","d","v","e","r","t","i","s","i","n","g">>,  \* 'advertising'
      <<"b","r","a","n","d">>,  \* 'brand'
      <<"d","i","g","i","t","a","l">>,  \* 'digital'
      <<"s","o","c","i","a","l">>,  \* 'social'
      <<"c","o","n","t","e","n","t">>,  \* 'content'
      <<"c","r","e","a","t","i","v","e">>,  \* 'creative'
      <<"d","e","s","i","g","n">>,  \* 'design'
      <<"c","o","m","m","u","n","i","c","a","t","i","o","n","s">>  \* 'communications'
    >>],
    [industry |-> "sales", keywords |-> <<
      <<"s","a","l","e","s">>,  \* 'sales'
      <<"b","u","s","i","n","e","s","s">>,  \* 'business'
      <<"d","e","v","e","l","o","p","m","e","n","t">>,  \* 'development'
      <<"a","c","c","o","u","n","t">>,  \* 'account'
      <<"c","l","i","e","n","t">>,  \* 'client'
      <<"r","e","v","e","n","u","e">>,  \* 'revenue'
      <<"g","r","o","w","t","h">>,  \* 'growth'
      <<"p","a","r","t","n","e","r","s","h","i","p">>,  \* 'partnership'
      <<"r","e","l","a","t","i","o","n","s","h","i","p">>  \* 'relationship'
    >>]
  >>

stopWords ==
  <<
    <<"l","o","o","k","i","n","g">>,  \* 'looking'
    <<"f","i","n","d">>,  \* 'find'
    <<"w","a","n","t">>,  \* 'want'
    <<"n","e","e","d">>,  \* 'need'
    <<"s","e","e","k","i","n","g">>,  \* 'seeking'
    <<"s","e","a","r","c","h","i","n","g">>,  \* 'searching'
    <<"f","o","r">>,  \* 'for'
    <<"t","h","e">>,  \* 'the'
    <<"a","n","d">>,  \* 'and'
    <<"o","r">>,  \* 'or'
    <<"i","n">>,  \* 'in'
    <<"a","t">>,  \* 'at'
    <<"t","o">>,  \* 'to'
    <<"w","i","t","h">>,  \* 'with'
    <<"p","e","o","p","l","e">>,  \* 'people'
    <<"p","r","o","f","e","s","s","i","o","n","a","l","s">>,  \* 'professionals'
    <<"e","x","p","e","r","t","s">>,  \* 'experts'
    <<"s","p","e","c","i","a","l","i","s","t","s">>  \* 'specialists'
  >>

roleKeywords ==
  <<
    <<"c","o","n","t","r","a","c","t","o","r">>,  \* 'contractor'
    <<"m","a","n","a","g","e","r">>,  \* 'manager'
    <<"d","i","r","e","c","t","o","r">>,  \* 'director'
    <<"l","e","a","d">>,  \* 'lead'
    <<"s","e","n","i","o","r">>,  \* 'senior'
    <<"s","p","e","c","i","a","l","i","s","t">>,  \* 'specialist'
    <<"e","x","p","e","r","t">>,  \* 'expert'
    <<"c","o","n","s","u","l","t","a","n","t">>,  \* 'consultant'
    <<"f","r","e","e","l","a","n","c","e","r">>,  \* 'freelancer'
    <<"i","n","d","e","p","e","n","d","e","n","t">>  \* 'independent'
  >>

companyKeywords ==
  <<
    <<"c","o","n","s","t","r","u","c","t","i","o","n">>,  \* 'construction'
    <<"b","u","i","l","d","i","n","g">>,  \* 'building'
    <<"c","o","n","t","r","a","c","t","i","n","g">>,  \* 'contracting'
    <<"d","e","v","e","l","o","p","m","e","n","t">>,  \* 'development'
    <<"e","n","g","i","n","e","e","r","i","n","g">>,  \* 'engineering'
    <<"i","n","f","r","a","s","t","r","u","c","t","u","r","e">>  \* 'infrastructure'
  >>

negativePhrases ==
  <<
    <<"n","o","t"," ","a"," ","g","o","o","d"," ","m","a","t","c","h">>,  \* 'not a good match'
    <<"n","o","t"," ","a"," ","s","t","r","o","n","g"," ","m","a","t","c","h">>,  \* 'not a strong match'
    <<"d","o","e","s"," ","n","o","t"," ","a","l","i","g","n">>,  \* 'does not align'
    <<"s","h","o","u","l","d"," ","b","e"," ","e","x","c","l","u","d","e","d">>,  \* 'should be excluded'
    <<"n","o"," ","c","l","e","a","r"," ","a","l","i","g","n","m","e","n","t">>  \* 'no clear alignment'
  >>

\* The text fields of the profiles of the model, by record number
Pool ==
  <<
    [name     |-> <<"A">>,  \* 'A'
      title    |-> <<"G","e","n","e","r","a","l"," ","C","o","n","t","r","a","c","t","o","r">>,  \* 'General Contractor'
      company  |-> <<"B","u","i","l","d","C","o">>,  \* 'BuildCo'
      location |-> <<"T","e","x","a","s">>,  \* 'Texas'
      industry |-> <<>>,  \* ''
      summary  |-> <<>>  \* ''
    ],
    [name     |-> <<"B">>,  \* 'B'
      title    |-> <<"B","a","r","i","s","t","a">>,  \* 'Barista'
      company  |-> <<"C","a","f","e">>,  \* 'Cafe'
      location |-> <<>>,  \* ''
      industry |-> <<>>,  \* ''
      summary  |-> <<>>  \* ''
    ],
    [name     |-> <<"C">>,  \* 'C'
      title    |-> <<"S","e","n","i","o","r"," ","C","o","n","s","t","r","u","c","t","i","o","n"," ","P","r","o","j","e","c","t"," ","M","a","n","a","g","e","r">>,  \* 'Senior Construction Project Manager'
      company  |-> <<"T","e","x","a","s"," ","I","n","f","r","a","s","t","r","u","c","t","u","r","e"," ","D","e","v","e","l","o","p","m","e","n","t">>,  \* 'Texas Infrastructure Development'
      location |-> <<"A","u","s","t","i","n",","," ","T","e","x","a","s">>,  \* 'Austin, Texas'
      industry |-> <<"C","o","n","s","t","r","u","c","t","i","o","n">>,  \* 'Construction'
      summary  |-> <<>>  \* ''
    ],
    [name     |-> <<"D">>,  \* 'D'
      title    |-> <<"S","i","t","e"," ","L","e","a","d">>,  \* 'Site Lead'
      company  |-> <<"A","c","m","e">>,  \* 'Acme'
      location |-> <<>>,  \* ''
      industry |-> <<>>,  \* ''
      summary  |-> <<>>  \* ''
    ],
    [name     |-> <<"E">>,  \* 'E'
      title    |-> <<"I","n","d","e","p","e","n","d","e","n","t"," ","C","o","n","s","u","l","t","a","n","t">>,  \* 'Independent Consultant'
      company  |-> <<>>,  \* ''
      location |-> <<"D","a","l","l","a","s">>,  \* 'Dallas'
      industry |-> <<>>,  \* ''
      summary  |-> <<>>  \* ''
    ],
    [name     |-> <<"F">>,  \* 'F'
      title    |-> <<"A","r","c","h","i","t","e","c","t">>,  \* 'Architect'
      company  |-> <<"S","t","u","d","i","o"," ","F">>,  \* 'Studio F'
      location |-> <<"H","o","u","s","t","o","n">>,  \* 'Houston'
      industry |-> <<>>,  \* ''
      summary  |-> <<>>  \* ''
    ],
    [name     |-> <<"G">>,  \* 'G'
      title    |-> <<"F","r","e","e","l","a","n","c","e","r">>,  \* 'Freelancer'
      company  |-> <<>>,  \* ''
      location |-> <<"T","e","x","a","s">>,  \* 'Texas'
      industry |-> <<>>,  \* ''
      summary  |-> <<>>  \* ''
    ],
    [name     |-> <<"H">>,  \* 'H'
      title    |-> <<"A","c","c","o","u","n","t","a","n","t">>,  \* 'Accountant'
      company  |-> <<"L","e","d","g","e","r"," ","L","L","C">>,  \* 'Ledger LLC'
      location |-> <<"B","o","i","s","e">>,  \* 'Boise'
      industry |-> <<>>,  \* ''
      summary  |-> <<>>  \* ''
    ],
    [name     |-> <<"I">>,  \* 'I'
      title    |-> <<"N","u","r","s","e">>,  \* 'Nurse'
      company  |-> <<"C","i","t","y"," ","H","o","s","p","i","t","a","l">>,  \* 'City Hospital'
      location |-> <<"R","e","n","o">>,  \* 'Reno'
      industry |-> <<>>,  \* ''
      summary  |-> <<>>  \* ''
    ],
    [name     |-> <<"J">>,  \* 'J'
      title    |-> <<"C","h","e","f">>,  \* 'Chef'
      company  |-> <<"B","i","s","t","r","o">>,  \* 'Bistro'
      location |-> <<"B","o","i","s","e">>,  \* 'Boise'
      industry |-> <<>>,  \* ''
      summary  |-> <<>>  \* ''
    ],
    [name     |-> <<"K">>,  \* 'K'
      title    |-> <<"P","i","l","o","t">>,  \* 'Pilot'
      company  |-> <<"A","i","r"," ","K">>,  \* 'Air K'
      location |-> <<"R","e","n","o">>,  \* 'Reno'
      industry |-> <<>>,  \* ''
      summary  |-> <<>>  \* ''
    ],
    [name     |-> <<"a">>,  \* 'a'
      title    |-> <<"B","u","i","l","d","e","r">>,  \* 'Builder'
      company  |-> <<"B","U","I","L","D","C","O"," ">>,  \* 'BUILDCO ' (the key of record 1)
      location |-> <<>>,  \* ''
      industry |-> <<>>,  \* ''
      summary  |-> <<>>  \* ''
    ],
    [name     |-> <<"a","-","b">>,  \* 'a-b' (the store key of record 14)
      title    |-> <<>>,  \* ''
      company  |-> <<"c">>,  \* 'c'
      location |-> <<>>,  \* ''
      industry |-> <<>>,  \* ''
      summary  |-> <<>>  \* ''
    ],
    [name     |-> <<"a">>,  \* 'a' (the store key of record 13)
      title    |-> <<>>,  \* ''
      company  |-> <<"b","-","c">>,  \* 'b-c'
      location |-> <<>>,  \* ''
      industry |-> <<>>,  \* ''
      summary  |-> <<>>  \* ''
    ],
    [name     |-> <<"2","-","a">>,  \* '2-a' (for user 'u1' the store key that records 13 and 14 have for user 'u1-2')
      title    |-> <<>>,  \* ''
      company  |-> <<"b","-","c">>,  \* 'b-c'
      location |-> <<>>,  \* ''
      industry |-> <<>>,  \* ''
      summary  |-> <<>>  \* ''
    ]
  >>
\* The mission texts a request body can carry, by mission number
Missions ==
  <<
    <<"L","o","o","k","i","n","g"," ","f","o","r"," ","c","o","n","s","t","r","u","c","t","i","o","n"," ","c","o","n","t","r","a","c","t","o","r","s"," ","i","n"," ","T","e","x","a","s">>,  \* 'Looking for construction contractors in Texas'
    <<"F","i","n","d"," ","p","e","o","p","l","e"," ","n","e","a","r"," ","A","u","s","t","i","n">>,  \* 'Find people near Austin'
    <<"h","i">>,  \* 'hi'
    <<>>  \* ''
  >>

-----------------------------------------------------------------------------
(* lib/utils: cosineSimilarity and findTopMatches                           *)

\* A similarity s of the code is the integer floor(s * Scale) here.
Scale == 100

dot(a, b) ==
  LET RECURSIVE sum(_)
      sum(i) == IF i = 0 THEN 0 ELSE a[i] * b[i] + sum(i - 1)
  IN  sum(Len(a))

\* cosineSimilarity throws when the lengths differ.
cosineThrows(a, b) == Len(a) # Len(b)

\* floor(sqrt(n)) for a natural number n
isqrt(n) == CHOOSE s \in 0..n : s * s <= n /\ (s + 1) * (s + 1) > n

\* A cosine without the square roots: dotProduct / (normA * normB)
cosineSimilarityNoRoot(a, b) ==
  IF dot(a, a) = 0 \/ dot(b, b) = 0 THEN 0
  ELSE IF dot(a, b) >= 0
       THEN (Scale * dot(a, b)) \div (dot(a, a) * dot(b, b))
       ELSE 0 - ((Scale * (0 - dot(a, b)) + dot(a, a) * dot(b, b) - 1)
                   \div (dot(a, a) * dot(b, b)))

\* cosineSimilarity(a, b) for vectors of equal length, in units of 1/Scale:
\* floor(Scale * dotProduct / (sqrt(normA) * sqrt(normB))), and 0 when a norm
\* is 0.  The quotient is taken under one root: floor(sqrt(q)) is the same for
\* q and for floor(q).
cosineSimilarity(a, b) ==
  LET dotProduct == dot(a, b)
      normA == dot(a, a)
      normB == dot(b, b)
      sq == Scale * Scale * dotProduct * dotProduct
      magnitude == isqrt(sq \div (normA * normB))
  IN  IF normA = 0 \/ normB = 0 THEN 0
      ELSE IF dotProduct >= 0 THEN magnitude
      ELSE IF magnitude * magnitude * normA * normB = sq THEN 0 - magnitude
      ELSE 0 - (magnitude + 1)

Unknown == <<"u","n","k","n","o","w","n">>
Dash == <<"-">>

\* `${profile.name.toLowerCase().trim()}-${(profile.company || 'unknown').toLowerCase().trim()}`
profileKey(profile) ==
  trim(toLowerCase(profile.name)) \o Dash
    \o trim(toLowerCase(IF profile.company = <<>> THEN Unknown ELSE profile.company))

\* The loop of findTopMatches over profiles[i..]: seen is seenProfiles, acc is
\* profilesWithSimilarity; the result says whether cosineSimilarity threw.
RECURSIVE similarityLoop(_, _, _, _, _, _)
similarityLoop(missionEmbedding, profiles, minSimilarity, i, seen, acc) ==
  IF i > Len(profiles) THEN [threw |-> FALSE, list |-> acc]
  ELSE LET profile == profiles[i]
           key == profileKey(profile)
       IN  IF Len(profile.embedding) = 0
           THEN similarityLoop(missionEmbedding, profiles, minSimilarity, i + 1, seen, acc)
           ELSE IF key \in seen
           THEN similarityLoop(missionEmbedding, profiles, minSimilarity, i + 1, seen, acc)
           ELSE IF cosineThrows(missionEmbedding, profile.embedding)
           THEN [threw |-> TRUE, list |-> <<>>]
           ELSE LET similarity == cosineSimilarity(missionEmbedding, profile.embedding)
                IN  similarityLoop(missionEmbedding, profiles, minSimilarity, i + 1,
                      seen \cup {key},
                      IF similarity >= minSimilarity
                      THEN Append(acc, [id |-> profile.id, name |-> profile.name,
                                        company |-> profile.company,
                                        similarity |-> similarity])
                      ELSE acc)

\* findTopMatches without its final .slice(0, topN)
findTopMatchesUncapped(missionEmbedding, profiles, topN, minSimilarity) ==
  LET loop == similarityLoop(missionEmbedding, profiles, minSimilarity, 1, {}, <<>>)
      keys == [i \in 1..Len(loop.list) |-> loop.list[i].similarity]
  IN  IF loop.threw THEN [threw |-> TRUE, matches |-> <<>>]
      ELSE [threw |-> FALSE, matches |-> sortDescending(loop.list, keys)]

\* findTopMatches(missionEmbedding, profiles, topN, minSimilarity), topN >= 0:
\* [threw |-> TRUE] when it throws, else its MatchResult list.
findTopMatches(missionEmbedding, profiles, topN, minSimilarity) ==
  LET loop == similarityLoop(missionEmbedding, profiles, minSimilarity, 1, {}, <<>>)
      keys == [i \in 1..Len(loop.list) |-> loop.list[i].similarity]
  IN  IF loop.threw THEN [threw |-> TRUE, matches |-> <<>>]
      ELSE [threw |-> FALSE,
            matches |-> slice0(sortDescending(loop.list, keys), topN)]

-----------------------------------------------------------------------------
(* search-profiles handlePost, Step 2: the strict text prefilter            *)

Space == <<" ">>

\* The number of elements of s that satisfy Test: s.filter(Test).length
countWhere(s, Test(_)) == Cardinality({i \in 1..Len(s) : Test(s[i])})

\* mission.toLowerCase().split(/\s+/).filter(length > 2).filter(not a stop word)
missionKeywords(mission) ==
  LET isStopWord(w) == \E i \in 1..Len(stopWords) : stopWords[i] = w
      keep(w) == Len(w) > 2 /\ ~isStopWord(w)
  IN  SelectSeq(split(toLowerCase(mission)), keep)

\* matches of one industry: keywords.filter(k => missionTextLower.includes(k)).length
industryMatches(missionTextLower, k) ==
  LET hit(keyword) == includes(missionTextLower, keyword)
  IN  countWhere(industryKeywords[k].keywords, hit)

\* The loop with "matches >= industryScore": the last industry with the most
\* matches wins, and an industry is chosen also when nothing matches
RECURSIVE primaryIndustryLoopLast(_, _, _, _)
primaryIndustryLoopLast(missionTextLower, k, primaryIndustry, industryScore) ==
  IF k > Len(industryKeywords) THEN primaryIndustry
  ELSE LET matches == industryMatches(missionTextLower, k)
       IN  IF matches >= industryScore
           THEN primaryIndustryLoopLast(missionTextLower, k + 1, k, matches)
           ELSE primaryIndustryLoopLast(missionTextLower, k + 1, primaryIndustry, industryScore)

\* The loop "if (matches > industryScore) { industryScore = matches; primaryIndustry = industry }"
\* over the industries k..: the index of the primary industry, 0 for null.
RECURSIVE primaryIndustryLoop(_, _, _, _)
primaryIndustryLoop(missionTextLower, k, primaryIndustry, industryScore) ==
  IF k > Len(industryKeywords) THEN primaryIndustry
  ELSE LET matches == industryMatches(missionTextLower, k)
       IN  IF matches > industryScore
           THEN primaryIndustryLoop(missionTextLower, k + 1, k, matches)
           ELSE primaryIndustryLoop(missionTextLower, k + 1, primaryIndustry, industryScore)

primaryIndustry(mission) == primaryIndustryLoop(toLowerCase(mission), 1, 0, 0)

\* The score the map callback of scoredProfiles gives one profile.
textScore(mission, profile) ==
  LET profileText == toLowerCase(profile.title \o Space \o profile.company \o Space
                                 \o profile.industry \o Space \o profile.summary)
      inText(keyword) == includes(profileText, keyword)
      primary == primaryIndustry(mission)
      industryHits == IF primary = 0 THEN 0
                      ELSE countWhere(industryKeywords[primary].keywords, inText)
      roleMatches == countWhere(roleKeywords, inText)
      companyMatches == countWhere(companyKeywords, inText)
      location == toLowerCase(profile.location)
      nearLocation(keyword) == includes(location, keyword) \/ includes(keyword, location)
      locationKeywords == IF profile.location = <<>> THEN 0
                          ELSE countWhere(missionKeywords(mission), nearLocation)
  IN  industryHits * 3 + roleMatches * 2 + companyMatches * 2 + locationKeywords * 1

\* .slice(0, 15)
TopCandidatesCap == 15

\* textScore(Missions[m], Pool[id]), computed once for every mission and record
textScoreOf ==
  [m \in 1..Len(Missions) |-> [id \in 1..Len(Pool) |-> textScore(Missions[m], Pool[id])]]

\* strictPrefilter without its .slice(0, 15)
strictPrefilterUncapped(mission, profiles) ==
  LET scoredProfiles == [i \in 1..Len(profiles) |->
                           [profile |-> profiles[i],
                            textScore |-> textScoreOf[mission][profiles[i].id]]]
      relevant(p) == p.textScore > 0
      relevantProfiles == SelectSeq(scoredProfiles, relevant)
      keys == [i \in 1..Len(relevantProfiles) |-> relevantProfiles[i].textScore]
  IN  sortDescending(relevantProfiles, keys)

\* scoredProfiles.filter(p => p.textScore > 0).sort((a, b) => b.textScore - a.textScore)
\*   .slice(0, 15): the candidates with their text scores.  mission is a mission
\* number and profiles[i].id a record number.
strictPrefilter(mission, profiles) ==
  LET scoredProfiles == [i \in 1..Len(profiles) |->
                           [profile |-> profiles[i],
                            textScore |-> textScoreOf[mission][profiles[i].id]]]
      relevant(p) == p.textScore > 0
      relevantProfiles == SelectSeq(scoredProfiles, relevant)
      keys == [i \in 1..Len(relevantProfiles) |-> relevantProfiles[i].textScore]
  IN  slice0(sortDescending(relevantProfiles, keys), TopCandidatesCap)

-----------------------------------------------------------------------------
(* The input domain: users, sessions, and what the external providers answer *)

\* user.userId of the authenticated users, by user number
UserIds ==
  <<
    <<"u","1">>,  \* 'u1'
    <<"u","2">>,  \* 'u2'
    <<"u","1","-","2">>   \* 'u1-2', an id that starts with another user's id
  >>

\* The sessionId values a request body can carry, by session number
SessionIds ==
  <<
    <<"u","p","l","o","a","d","-","u","1","-","1">>,  \* 'upload-u1-1'
    <<"u","p","l","o","a","d","-","u","2","-","1">>,  \* 'upload-u2-1'
    <<>>,                                             \* '' (no session id)
    <<"u","p","l","o","a","d","-","u","1","-","2">>,  \* 'upload-u1-2'
    <<"s","c","r","a","p","e","-","u","1","-","3">>,  \* 'scrape-u1-3'
    <<"u","p","l","o","a","d","-","u","1","-","2","-","1">>  \* 'upload-u1-2-1', of user 'u1-2'
  >>

\* The embedding provider's vector for the profile text of Pool[id]
ProfileVector ==
  << <<1, 1>>, <<0, 2>>, <<1, 0>>, <<1, 3>>, <<1, 4>>, <<0, 1>>, <<-1, 0>>,
     <<0, -1>>, <<0, -2>>, <<-1, -1>>, <<-2, 1>>, <<2, 1>>,
     <<1, 2>>, <<2, 2>>, <<3, 1>> >>

\* The embedding provider's vector for the mission text of Missions[m]
MissionVector ==
  << <<1, 0>>, <<1, 0>>, <<1, 0>>, <<1, 0>> >>

\* What the text-generation provider can answer to a reasoning prompt
ReplyText ==
  [positive |-> <<"S","t","r","o","n","g"," ","f","i","t",":"," ","l","e","a","d","s"," ","c","o","n","s","t","r","u","c","t","i","o","n"," ","p","r","o","j","e","c","t","s"," ","i","n"," ","T","e","x","a","s",".">>,
   negative |-> <<"T","h","i","s"," ","p","r","o","f","i","l","e"," ","i","s"," ","N","O","T"," ","a"," ","g","o","o","d"," ","m","a","t","c","h"," ","f","o","r"," ","t","h","e"," ","m","i","s","s","i","o","n",".">>,
   empty    |-> <<>>]

Requests == {1, 2}

-----------------------------------------------------------------------------
(* lib/storage.ts: the candidate store                                      *)

\* A document is [id, userId, uploadSessionId, embedding, uploadedAt]: id is the
\* number of its text fields in Pool, userId and uploadSessionId are user and
\* session numbers, and uploadedAt is the value of new Date() at the write that
\* set it, named by the event that read the clock.
\* A Profile in a handler's memory is [id, uploadSessionId, embedding].

\* `${userId}-${name.toLowerCase().trim()}-${(company || 'unknown').toLowerCase().trim()}`
uniqueKey(userId, id) == UserIds[userId] \o Dash \o profileKey(Pool[id])

docKey(doc) == uniqueKey(doc.userId, doc.id)

\* A find by session id alone: find({uploadSessionId})
getProfilesOfSession(docs, sessionId, userId) ==
  LET inSession(doc) == doc.uploadSessionId = sessionId
      found == SelectSeq(docs, inSession)
  IN  [i \in 1..Len(found) |->
         [id |-> found[i].id, uploadSessionId |-> found[i].uploadSessionId,
          embedding |-> found[i].embedding]]

\* getProfilesBySession: find({uploadSessionId, userId}), mapped to Profiles
getProfilesBySession(docs, sessionId, userId) ==
  LET mine(doc) == doc.uploadSessionId = sessionId /\ doc.userId = userId
      found == SelectSeq(docs, mine)
  IN  [i \in 1..Len(found) |->
         [id |-> found[i].id, uploadSessionId |-> found[i].uploadSessionId,
          embedding |-> found[i].embedding]]

\* updateOne({uniqueKey}, {$set: {embedding}}): the first document with the key
updateOneEmbedding(docs, key, embedding) ==
  LET hits == {i \in 1..Len(docs) : docKey(docs[i]) = key}
  IN  IF hits = {} THEN docs
      ELSE [docs EXCEPT ![Min(hits)].embedding = embedding]

\* insertOne(linkedinProfile) on a collection without the unique index
insertOne(docs, doc) == Append(docs, doc)

\* replaceOne({uniqueKey}, linkedinProfile, {upsert: true})
replaceOneUpsert(docs, doc) ==
  LET hits == {i \in 1..Len(docs) : docKey(docs[i]) = docKey(doc)}
  IN  IF hits = {} THEN Append(docs, doc)
      ELSE [docs EXCEPT ![Min(hits)] = doc]

\* new Date() as read when the store of the model was set up, by request r,
\* and by the upload or enrichment that made session number sessionId
ImportTime == <<"import", 0>>
requestTime(r) == <<"request", r>>
sessionTime(sessionId) == <<"session", sessionId>>

\* saveProfiles(profiles, userId): one replaceOne per profile, in order; every
\* replacement carries uploadedAt: new Date()
RECURSIVE saveProfiles(_, _, _, _)
saveProfiles(docs, profiles, userId, now) ==
  IF profiles = <<>> THEN docs
  ELSE saveProfiles(
         replaceOneUpsert(docs, [id |-> Head(profiles).id, userId |-> userId,
                                 uploadSessionId |-> Head(profiles).uploadSessionId,
                                 embedding |-> Head(profiles).embedding,
                                 uploadedAt |-> now]),
         Tail(profiles), userId, now)
-----------------------------------------------------------------------------
(* The 'users' collection and the rate limiter's Map                        *)

\* No document for an e-mail address; every authenticated user has one address
NoUser == [exists |-> FALSE, matches |-> <<>>]

\* RATE_LIMITS: windowMs in clock ticks and maxRequests, both scaled down with
\* their order kept; UPLOAD and SCRAPING have the same window, and so have
\* GENERAL and MATCHING
ShortWindow == 1
LongWindow == 2
GeneralMax == 4
UploadMax == 1
ScrapingMax == 3
MatchingMax == 2

RATE_LIMITS ==
  [GENERAL  |-> [windowMs |-> ShortWindow, maxRequests |-> GeneralMax],
   UPLOAD   |-> [windowMs |-> LongWindow, maxRequests |-> UploadMax],
   SCRAPING |-> [windowMs |-> LongWindow, maxRequests |-> ScrapingMax],
   MATCHING |-> [windowMs |-> ShortWindow, maxRequests |-> MatchingMax]]

\* A key without an entry in the Map
NoEntry == [count |-> 0, resetTime |-> 0 - 1]

NoSideState ==
  /\ users = [u \in 1..Len(UserIds) |-> NoUser]
  /\ rateLimitStore = [k \in (1..Len(UserIds)) \X {ShortWindow, LongWindow} |-> NoEntry]
  /\ clock = 0
-----------------------------------------------------------------------------
(* Requests and responses                                                   *)

NoResponse == [status |-> 0, kind |-> "none", matches |-> <<>>]

NoCalls == [issued |-> 0, failed |-> 0]

\* A request that has not arrived yet.  The fields are the handler's local
\* variables; pc is the await it is suspended at; response is what the caller
\* has received.  embeddingCalls, chatCalls and storeWrites count what the
\* request has done to its collaborators, submitted lists the candidates sent
\* to the embedding provider, in order, loadedWithEmbedding holds the profiles
\* that had an embedding when they were loaded, and batchLog the outcome of
\* every batch of match-profiles.  timedOut says that the 240 s timer of match-profiles has
\* answered the caller; timeoutPc and persistedAtTimeout record where the
\* handler stood at that moment and which records of the store had embeddings.
IdleRequest ==
  [pc |-> "idle", handler |-> "none", user |-> 0, mission |-> 0, sessionId |-> 0,
   profiles |-> <<>>, missionEmbedding |-> <<>>, topCandidates |-> <<>>,
   candidatesToProcess |-> <<>>, groupIndex |-> 0, inflight |-> {},
   submitted |-> <<>>, loadedWithEmbedding |-> {},
   matches |-> <<>>, reasoning |-> <<>>, response |-> NoResponse,
   embeddingCalls |-> NoCalls, chatCalls |-> NoCalls, storeWrites |-> 0,
   batchIndex |-> 0, failedBatches |-> 0, batchLog |-> <<>>,
   timedOut |-> FALSE, timeoutPc |-> "none", persistedAtTimeout |-> {}]

\* return NextResponse.json(...): the handler's promise settles.  A caller whom
\* the timer has answered already keeps that answer (Promise.race).
respond(s, status, kind, matches) ==
  [s EXCEPT !.pc = "done",
            !.response = IF s.timedOut THEN @
                         ELSE [status |-> status, kind |-> kind, matches |-> matches]]

hasEmbedding(p) == Len(p.embedding) > 0

\* The record numbers of the profiles of a list that have an embedding
withEmbedding(profiles) ==
  {profiles[i].id : i \in {j \in 1..Len(profiles) : hasEmbedding(profiles[j])}}

\* The fields of a candidate that findTopMatches reads
asProfile(c) ==
  [id |-> c.id, name |-> Pool[c.id].name, company |-> Pool[c.id].company,
   embedding |-> c.embedding]

\* validateMissionStatement(mission).isValid
MinMissionLength == 10
MaxMissionLength == 2000

validMission(mission) ==
  LET trimmedMission == trim(mission)
      lower == toLowerCase(trimmedMission)
  IN  /\ mission # <<>>
      /\ ~(Len(trimmedMission) < MinMissionLength)
      /\ ~(Len(trimmedMission) > MaxMissionLength)
      \* of the suspicious patterns only the two literal ones can match a text
      \* without "=" and "(", which is every mission of the model
      /\ ~includes(lower, <<"<","s","c","r","i","p","t">>)
      /\ ~includes(lower, <<"j","a","v","a","s","c","r","i","p","t",":">>)

validMissionOf == [m \in 1..Len(Missions) |-> validMission(Missions[m])]

\* sessionId.startsWith(`upload-${user.userId}-`) || sessionId.startsWith(`user-${user.userId}-`)
ownsSession(sessionId, userId) ==
  \/ startsWith(SessionIds[sessionId],
                <<"u","p","l","o","a","d","-">> \o UserIds[userId] \o Dash)
  \/ startsWith(SessionIds[sessionId],
                <<"u","s","e","r","-">> \o UserIds[userId] \o Dash)

\* for (i = 0; i < list.length; i += size) chunks.push(list.slice(i, i + size))
chunks(list, size) ==
  [k \in 1..((Len(list) + size - 1) \div size) |->
     SubSeq(list, (k - 1) * size + 1,
            IF k * size < Len(list) THEN k * size ELSE Len(list))]

-----------------------------------------------------------------------------
(* search-profiles handlePost, strict variant (route.ts lines 487-1015)     *)

\* const batchSize = 10 and const maxConcurrentBatches = 5 in the code.  The
\* model runs the same loops with smaller values, so that a handful of
\* candidates already fills several batches and more than one batch group.
SearchBatchSize == 2
MaxConcurrentBatches == 2

\* findTopMatches(missionEmbedding, candidatesWithEmbeddings, 6, 0.3)
SearchTopN == 6
SearchMinSimilarity == (3 * Scale) \div 10

\* candidatesToProcess without its filter: every candidate, by position
candidatesToProcessAll(topCandidates) == [i \in 1..Len(topCandidates) |-> i]

\* The candidates of topCandidates, by position, that lack an embedding:
\* topCandidates.filter(p => !p.embedding || p.embedding.length === 0)
candidatesToProcess(topCandidates) ==
  LET lacks(i) == ~hasEmbedding(topCandidates[i])
  IN  SelectSeq([i \in 1..Len(topCandidates) |-> i], lacks)

batches(s) == chunks(s.candidatesToProcess, SearchBatchSize)

batchGroups(s) == chunks(batches(s), MaxConcurrentBatches)

\* The candidates (positions) of batch group g
groupCandidates(s, g) ==
  LET group == batchGroups(s)[g]
  IN  UNION {{group[b][i] : i \in 1..Len(group[b])} : b \in 1..Len(group)}

\* batchGroup.map(async batch => batch.map(async profile => ... embeddings.create)):
\* every request of the group is issued before the first await returns.
startGroup(s, g) ==
  LET group == batchGroups(s)[g]
      RECURSIVE flat(_)
      flat(b) == IF b > Len(group) THEN <<>> ELSE group[b] \o flat(b + 1)
      order == flat(1)
  IN  [s EXCEPT !.pc = "embedding", !.groupIndex = g,
                !.inflight = @ \cup {order[i] : i \in 1..Len(order)},
                !.submitted = @ \o [i \in 1..Len(order) |-> s.topCandidates[order[i]].id],
                !.embeddingCalls.issued = @ + Len(order)]

\* similarity: profile.textScore / 10
fallbackSimilarity(score) == (score * Scale) \div 10

\* topCandidates.slice(0, 6).map(profile => ({...profile, similarity, reasoning}))
fallbackMatches(topCandidates) ==
  LET top == slice0(topCandidates, 6)
  IN  [i \in 1..Len(top) |->
         [id |-> top[i].id, similarity |-> fallbackSimilarity(top[i].textScore),
          reasoning |-> "textAnalysis"]]

\* Steps 4 and 5 up to the reasoning calls (lines 743-815)
rankStage(s) ==
  IF Len(s.topCandidates) = 0
  THEN respond(s, 200, "noRelevantProfiles", <<>>)
  ELSE LET candidatesWithEmbeddings == SelectSeq(s.topCandidates, hasEmbedding)
           ranked == findTopMatches(s.missionEmbedding,
                       [i \in 1..Len(candidatesWithEmbeddings) |->
                          asProfile(candidatesWithEmbeddings[i])],
                       SearchTopN, SearchMinSimilarity)
           matches == [i \in 1..Len(ranked.matches) |->
                         [id |-> ranked.matches[i].id,
                          similarity |-> ranked.matches[i].similarity]]
       IN  IF ranked.threw THEN respond(s, 500, "searchFailed", <<>>)
           ELSE IF Len(matches) = 0
           THEN IF Len(candidatesWithEmbeddings) = 0
                THEN respond(s, 200, "textAnalysis", fallbackMatches(s.topCandidates))
                ELSE respond(s, 404, "noSuitableMatches", <<>>)
           ELSE [s EXCEPT !.pc = "reasoning", !.matches = matches,
                          !.reasoning = [i \in 1..Len(matches) |-> "pending"],
                          !.chatCalls.issued = @ + Len(matches)]

\* A loop that does not wait for the group: it goes on after any response
groupSettledEarly(inflight) == TRUE

\* await Promise.all(groupPromises): the group is over when no request is pending
groupSettled(inflight) == inflight = {}

\* What follows the last batch group (lines 722-741): the new embeddings are
\* written back when there are any, else ranking follows at once.
afterGroups(s) ==
  LET new(i) == hasEmbedding(s.topCandidates[i])
      candidatesWithNewEmbeddings == SelectSeq(s.candidatesToProcess, new)
  IN  IF Len(candidatesWithNewEmbeddings) > 0
      THEN [s EXCEPT !.pc = "persisting"]
      ELSE rankStage(s)

\* topCandidates of Step 2 (lines 558-647), each with the stored embedding
prefilterCandidates(top) ==
  [i \in 1..Len(top) |->
     [id |-> top[i].profile.id, textScore |-> top[i].textScore,
      embedding |-> top[i].profile.embedding]]

\* The handler's locals once topCandidates is known (lines 647-653)
withCandidates(s, topCandidates) ==
  [s EXCEPT !.topCandidates = topCandidates,
            !.candidatesToProcess = candidatesToProcess(topCandidates)]

\* if (candidatesToProcess.length > 0) { batch groups } then Step 4
resolveOrRank(t) ==
  IF Len(t.candidatesToProcess) > 0 THEN startGroup(t, 1) ELSE rankStage(t)

\* Steps 2 and 3 (lines 558-720) from the mission embedding to the first await
resolveStage(s) ==
  resolveOrRank(withCandidates(s,
    prefilterCandidates(strictPrefilter(s.mission, s.profiles))))

GenericReasoning ==
  <<"T","h","i","s"," ","p","r","o","f","i","l","e"," ","m","a","t","c","h","e","s"," ","y","o","u","r"," ","n","e","t","w","o","r","k","i","n","g"," ","g","o","a","l","s"," ","b","a","s","e","d"," ","o","n"," ","t","h","e","i","r"," ","p","r","o","f","e","s","s","i","o","n","a","l"," ","b","a","c","k","g","r","o","u","n","d"," ","a","n","d"," ","e","x","p","e","r","i","e","n","c","e",".">>

\* The text a reasoning tag stands for
reasoningText(tag) ==
  IF tag = "generic" THEN GenericReasoning ELSE ReplyText[tag]

\* reasoning.toLowerCase().includes(phrase) for one of the negative phrases
isPoorMatch(reasoning) ==
  \E k \in 1..Len(negativePhrases) : includes(toLowerCase(reasoning), negativePhrases[k])

\* reasoning = content || generic on success, generic in the catch block
reasoningOf(outcome) ==
  IF outcome = "error" \/ ReplyText[outcome] = <<>> THEN "generic" ELSE outcome

\* isPoorMatch of the text of every reasoning tag, computed once
poorMatch ==
  [tag \in {"generic", "positive", "negative"} |-> isPoorMatch(reasoningText(tag))]

\* validMatches when no callback returns null: every ranked match is kept
validMatchesUnfiltered(s) ==
  [k \in 1..Len(s.matches) |->
     [id |-> s.matches[k].id, similarity |-> s.matches[k].similarity,
      reasoning |-> s.reasoning[k]]]

\* enrichedMatches.filter(match => match !== null) once every callback returned
validMatches(s) ==
  LET kept(i) == ~poorMatch[s.reasoning[i]]
      idx == SelectSeq([i \in 1..Len(s.matches) |-> i], kept)
  IN  [k \in 1..Len(idx) |->
         [id |-> s.matches[idx[k]].id, similarity |-> s.matches[idx[k]].similarity,
          reasoning |-> s.reasoning[idx[k]]]]

\* Lines 925-975: after Promise.all of the reasoning callbacks
afterReasoning(s) ==
  IF Len(validMatches(s)) = 0
  THEN respond(s, 200, "noRelevantMatches", <<>>)
  ELSE [s EXCEPT !.pc = "recommending", !.chatCalls.issued = @ + 1]

\* The request arrives: lines 489-517, up to the await of getProfilesBySession
SearchReceive(r) ==
  /\ req[r].pc = "idle"
  /\ \E user \in {1}, mission \in 1..Len(Missions), sessionId \in 1..Len(SessionIds) :
       LET s == [req[r] EXCEPT !.handler = "search", !.user = user,
                               !.mission = mission, !.sessionId = sessionId]
       IN  req' = [req EXCEPT ![r] =
             IF ~validMissionOf[mission]
             THEN respond(s, 400, "validation", <<>>)
             ELSE IF SessionIds[sessionId] = <<>>
             THEN respond(s, 400, "sessionRequired", <<>>)
             ELSE IF ~ownsSession(sessionId, user)
             THEN respond(s, 403, "unauthorized", <<>>)
             ELSE [s EXCEPT !.pc = "loading"]]
  /\ UNCHANGED <<store, sideState, config, fcall, fresult>>

\* SearchLoad without the check of process.env
SearchLoadUnchecked(r) ==
  /\ req[r].pc = "loading" /\ req[r].handler = "search"
  /\ req' = [req EXCEPT ![r] =
       IF Len(getProfilesBySession(store, req[r].sessionId, req[r].user)) = 0
       THEN respond(req[r], 400, "noProfiles", <<>>)
       ELSE [req[r] EXCEPT
               !.pc = "missionEmbedding",
               !.profiles = getProfilesBySession(store, req[r].sessionId, req[r].user),
               !.loadedWithEmbedding =
                  withEmbedding(getProfilesBySession(store, req[r].sessionId, req[r].user)),
               !.embeddingCalls.issued = @ + 1]]
  /\ UNCHANGED <<store, sideState, config, fcall, fresult>>

\* SearchLoad without the check of profiles.length === 0
SearchLoadAnyway(r) ==
  /\ req[r].pc = "loading" /\ req[r].handler = "search"
  /\ req' = [req EXCEPT ![r] =
       IF ~config.apiKey \/ ~config.endpoint
       THEN respond(req[r], 500, "configMissing", <<>>)
       ELSE [req[r] EXCEPT
               !.pc = "missionEmbedding",
               !.profiles = getProfilesBySession(store, req[r].sessionId, req[r].user),
               !.loadedWithEmbedding =
                  withEmbedding(getProfilesBySession(store, req[r].sessionId, req[r].user)),
               !.embeddingCalls.issued = @ + 1]]
  /\ UNCHANGED <<store, sideState, config, fcall, fresult>>

\* getProfilesBySession returns: lines 520-555, up to the mission embedding call
SearchLoad(r) ==
  /\ req[r].pc = "loading" /\ req[r].handler = "search"
  /\ LET s == req[r]
         profiles == getProfilesBySession(store, s.sessionId, s.user)
     IN  req' = [req EXCEPT ![r] =
           IF Len(profiles) = 0
           THEN respond(s, 400, "noProfiles", <<>>)
           ELSE IF ~config.apiKey \/ ~config.endpoint
           THEN respond(s, 500, "configMissing", <<>>)
           ELSE [s EXCEPT !.pc = "missionEmbedding", !.profiles = profiles,
                          !.loadedWithEmbedding = withEmbedding(profiles),
                          !.embeddingCalls.issued = @ + 1]]
  /\ UNCHANGED <<store, sideState, config, fcall, fresult>>

\* The mission embedding call returns or throws (lines 552-556)
SearchMissionEmbedded(r) ==
  /\ req[r].pc = "missionEmbedding" /\ req[r].handler = "search"
  /\ \E ok \in BOOLEAN :
       LET s == req[r]
       IN  req' = [req EXCEPT ![r] =
             IF ok
             THEN resolveStage([s EXCEPT !.missionEmbedding = MissionVector[s.mission]])
             ELSE respond([s EXCEPT !.embeddingCalls.failed = @ + 1],
                          500, "searchFailed", <<>>)]
  /\ UNCHANGED <<store, sideState, config, fcall, fresult>>

\* SearchEmbeddingDone without the try/catch around the embedding request: a
\* request that throws rejects Promise.all and ends in the handler's catch-all
SearchEmbeddingDoneUncaught(r) ==
  /\ req[r].pc = "embedding" /\ req[r].handler = "search"
  /\ \E i \in req[r].inflight, ok \in BOOLEAN :
       req' = [req EXCEPT ![r] =
         IF ~ok
         THEN respond([req[r] EXCEPT !.inflight = @ \ {i}, !.embeddingCalls.failed = @ + 1],
                      500, "searchFailed", <<>>)
         ELSE IF ~groupSettled(req[r].inflight \ {i})
         THEN [req[r] EXCEPT !.inflight = @ \ {i},
                  !.topCandidates[i].embedding = ProfileVector[req[r].topCandidates[i].id]]
         ELSE IF req[r].groupIndex < Len(batchGroups(req[r]))
         THEN [req[r] EXCEPT !.inflight = @ \ {i}, !.pc = "pause",
                  !.topCandidates[i].embedding = ProfileVector[req[r].topCandidates[i].id]]
         ELSE afterGroups([req[r] EXCEPT !.inflight = @ \ {i},
                  !.topCandidates[i].embedding = ProfileVector[req[r].topCandidates[i].id]])]
  /\ UNCHANGED <<store, sideState, config, fcall, fresult>>

\* One embedding request of the running batch group returns or throws
\* (lines 683-720); the last one to return ends the group.
SearchEmbeddingDone(r) ==
  /\ req[r].pc = "embedding" /\ req[r].handler = "search"
  /\ \E i \in req[r].inflight, ok \in BOOLEAN :
       LET s == req[r]
           t == [s EXCEPT !.inflight = @ \ {i},
                          !.topCandidates[i].embedding =
                             IF ok THEN ProfileVector[s.topCandidates[i].id] ELSE @,
                          !.embeddingCalls.failed = IF ok THEN @ ELSE @ + 1]
       IN  req' = [req EXCEPT ![r] =
             IF ~groupSettled(t.inflight) THEN t
             ELSE IF t.groupIndex < Len(batchGroups(t))
             THEN [t EXCEPT !.pc = "pause"]
             ELSE afterGroups(t)]
  /\ UNCHANGED <<store, sideState, config, fcall, fresult>>

\* The one-second pause between two batch groups is over (lines 716-719)
SearchNextGroup(r) ==
  /\ req[r].pc = "pause" /\ req[r].handler = "search"
  /\ req' = [req EXCEPT ![r] = startGroup(req[r], req[r].groupIndex + 1)]
  /\ UNCHANGED <<store, sideState, config, fcall, fresult>>

\* updateOne for every candidate with a new embedding (lines 723-739)
RECURSIVE updateEmbeddings(_, _, _)
updateEmbeddings(docs, candidates, userId) ==
  IF candidates = <<>> THEN docs
  ELSE updateEmbeddings(
         updateOneEmbedding(docs, uniqueKey(userId, Head(candidates).id),
                            Head(candidates).embedding),
         Tail(candidates), userId)

SearchPersist(r) ==
  /\ req[r].pc = "persisting" /\ req[r].handler = "search"
  /\ LET s == req[r]
         new(i) == hasEmbedding(s.topCandidates[i])
         idx == SelectSeq(s.candidatesToProcess, new)
         candidatesWithNewEmbeddings == [k \in 1..Len(idx) |-> s.topCandidates[idx[k]]]
     IN  /\ store' = updateEmbeddings(store, candidatesWithNewEmbeddings, s.user)
         /\ req' = [req EXCEPT ![r] =
                      rankStage([s EXCEPT !.storeWrites = @ + Len(idx)])]
  /\ UNCHANGED <<sideState, config, fcall, fresult>>

\* SearchReasoningDone without the try/catch around the reasoning call: a call
\* that throws rejects Promise.all and ends in the handler's catch-all
SearchReasoningDoneUncaught(r) ==
  /\ req[r].pc = "reasoning" /\ req[r].handler = "search"
  /\ \E i \in 1..Len(req[r].matches), outcome \in {"positive", "negative", "empty", "error"} :
       /\ req[r].reasoning[i] = "pending"
       /\ req' = [req EXCEPT ![r] =
            IF outcome = "error"
            THEN respond([req[r] EXCEPT !.chatCalls.failed = @ + 1], 500, "searchFailed", <<>>)
            ELSE IF \E j \in 1..Len(req[r].matches) : j # i /\ req[r].reasoning[j] = "pending"
            THEN [req[r] EXCEPT !.reasoning[i] = reasoningOf(outcome)]
            ELSE afterReasoning([req[r] EXCEPT !.reasoning[i] = reasoningOf(outcome)])]
  /\ UNCHANGED <<store, sideState, config, fcall, fresult>>

\* One reasoning call returns or throws (lines 836-868); the last one to
\* return lets the handler go on to the recommendation call.
SearchReasoningDone(r) ==
  /\ req[r].pc = "reasoning" /\ req[r].handler = "search"
  /\ \E i \in 1..Len(req[r].matches), outcome \in {"positive", "negative", "empty", "error"} :
       /\ req[r].reasoning[i] = "pending"
       /\ LET s == req[r]
              t == [s EXCEPT !.reasoning[i] = reasoningOf(outcome),
                             !.chatCalls.failed = IF outcome = "error" THEN @ + 1 ELSE @]
          IN  req' = [req EXCEPT ![r] =
                IF \E j \in 1..Len(t.matches) : t.reasoning[j] = "pending"
                THEN t ELSE afterReasoning(t)]
  /\ UNCHANGED <<store, sideState, config, fcall, fresult>>

\* The recommendation call returns or throws (lines 959-1014)
SearchRecommendationDone(r) ==
  /\ req[r].pc = "recommending" /\ req[r].handler = "search"
  /\ \E ok \in BOOLEAN :
       LET s == req[r]
       IN  req' = [req EXCEPT ![r] =
             IF ok THEN respond(s, 200, "success", validMatches(s))
             ELSE respond([s EXCEPT !.chatCalls.failed = @ + 1],
                          500, "searchFailed", <<>>)]
  /\ UNCHANGED <<store, sideState, config, fcall, fresult>>

\* The number of Pool records in the session of the model's store
NumProfiles == 6

\* Stores the program can be in before a request: the session of user 1 holds
\* the n records of Pool that follow record number skip, and the records of
\* stored carry the embedding an earlier request has written back.
InitialStore(skip, n, stored) ==
  [i \in 1..n |-> [id |-> skip + i, userId |-> 1, uploadSessionId |-> 1,
                   embedding |-> IF skip + i \in stored
                                 THEN ProfileVector[skip + i] ELSE <<>>,
                   uploadedAt |-> ImportTime]]

NoCall == [fn |-> "none"]
NoResult == [fn |-> "none"]

\* A session of three candidates with vectors; the vector of record 4 is one
\* that an embedding deployment of another dimension returned to an earlier
\* request
LegacyStore ==
  InitialStore(0, 3, {1, 3})
    \o <<[id |-> 4, userId |-> 1, uploadSessionId |-> 1, embedding |-> <<1>>,
          uploadedAt |-> ImportTime]>>

InitSearch ==
  /\ \/ \E n \in 0..NumProfiles, stored \in {{}, {1, 2}, 1..NumProfiles} :
          store = InitialStore(0, n, stored)
     \/ store = LegacyStore
  /\ config \in [apiKey : BOOLEAN, endpoint : BOOLEAN, deployment : {TRUE}]
  /\ req = [r \in Requests |-> IdleRequest]
  /\ NoSideState
  /\ fcall = NoCall
  /\ fresult = NoResult

NextSearch ==
  \E r \in {1} :
    \/ SearchReceive(r)
    \/ SearchLoad(r)
    \/ SearchMissionEmbedded(r)
    \/ SearchEmbeddingDone(r)
    \/ SearchNextGroup(r)
    \/ SearchPersist(r)
    \/ SearchReasoningDone(r)
    \/ SearchRecommendationDone(r)

SpecSearch == InitSearch /\ [][NextSearch]_vars


\* The four minutes that bound a run of match-profiles elapse while a search
\* request is suspended at an await.  handlePost of search-profiles sets no
\* timer and races its work against nothing (lines 487-1018), so nothing of
\* the request changes but the record of where it stood: the caller goes on
\* waiting for the handler's own response.
SearchDeadline(r) ==
  /\ req[r].handler = "search" /\ req[r].pc \notin {"idle", "done"}
  /\ req[r].timeoutPc = "none"
  /\ req' = [req EXCEPT ![r].timeoutPc = req[r].pc]
  /\ UNCHANGED <<store, sideState, config, fcall, fresult>>

NextSearchTimed ==
  \/ NextSearch
  \/ \E r \in {1} : SearchDeadline(r)

SpecSearchTimed == InitSearch /\ [][NextSearchTimed]_vars
-----------------------------------------------------------------------------
(* match-profiles handlePost (part_001): one API call per batch, the store   *)
(* saved after every batch, the whole handler raced against a 240 s timer    *)

\* const batchSize = 5 in the code; the model runs the same loop with a smaller
\* value, so that a handful of profiles already makes several batches.
MatchBatchSize == 2

\* const maxFailedBatches = 3
MaxFailedBatches == 3

\* const maxProfilesToProcess = 200
MaxProfilesToProcess == 200

\* findTopMatches(missionEmbedding, profiles, 5, 0.3)
MatchTopN == 5
MatchMinSimilarity == (3 * Scale) \div 10

MinSessionIdLength == 5
MaxSessionIdLength == 200

SessionIdChars ==
  {UpperCase[i] : i \in 1..26} \cup {LowerCase[i] : i \in 1..26}
    \cup {"0","1","2","3","4","5","6","7","8","9","_","-"}

\* validateSessionId(sessionId).isValid for a non-empty sessionId
validateSessionId(sessionId) ==
  LET trimmedSessionId == trim(sessionId)
  IN  /\ trimmedSessionId # <<>>
      /\ \A i \in 1..Len(trimmedSessionId) : trimmedSessionId[i] \in SessionIdChars
      /\ ~(Len(trimmedSessionId) < MinSessionIdLength)
      /\ ~(Len(trimmedSessionId) > MaxSessionIdLength)

validSessionIdOf == [k \in 1..Len(SessionIds) |-> validateSessionId(SessionIds[k])]

\* profilesToProcess without its filter: every profile, by position
profilesToProcessAll(profiles) == [i \in 1..Len(profiles) |-> i]

\* profiles.filter(p => !p.embedding || p.embedding.length === 0), by position
profilesToProcess(profiles) ==
  LET lacks(i) == ~hasEmbedding(profiles[i])
  IN  SelectSeq([i \in 1..Len(profiles) |-> i], lacks)

\* profilesToProcess.slice(0, maxProfilesToProcess)
limitedProfilesToProcess(profiles) ==
  slice0(profilesToProcess(profiles), MaxProfilesToProcess)

matchBatches(s) == chunks(s.candidatesToProcess, MatchBatchSize)

\* Step 3 up to the reasoning calls (lines 197-207)
matchRank(s) ==
  LET ranked == findTopMatches(s.missionEmbedding,
                  [i \in 1..Len(s.profiles) |-> asProfile(s.profiles[i])],
                  MatchTopN, MatchMinSimilarity)
  IN  IF ranked.threw THEN respond(s, 500, "matchFailed", <<>>)
      ELSE IF Len(ranked.matches) = 0
      THEN respond(s, 404, "noSuitableMatches", <<>>)
      ELSE [s EXCEPT !.pc = "reasoning",
                     !.matches = [i \in 1..Len(ranked.matches) |->
                                    [id |-> ranked.matches[i].id,
                                     similarity |-> ranked.matches[i].similarity]],
                     !.reasoning = [i \in 1..Len(ranked.matches) |-> "pending"],
                     !.chatCalls.issued = @ + Len(ranked.matches)]

\* The body of the for loop up to its await: openai.embeddings.create for batch b
startBatch(s, b) ==
  [s EXCEPT !.pc = "embedding", !.batchIndex = b,
            !.submitted = @ \o [i \in 1..Len(matchBatches(s)[b]) |->
                                  s.profiles[matchBatches(s)[b][i]].id],
            !.embeddingCalls.issued = @ + 1]

\* i += batchSize; i < limitedProfilesToProcess.length: the next batch, or Step 3
nextBatch(s) ==
  IF s.batchIndex < Len(matchBatches(s)) THEN startBatch(s, s.batchIndex + 1)
  ELSE matchRank(s)

\* The catch block without its break: the loop goes on whatever has failed
batchFailedContinue(s) == nextBatch(s)

\* The catch block of the batch loop (lines 179-190)
batchFailed(s) ==
  IF s.failedBatches >= MaxFailedBatches THEN matchRank(s) ELSE nextBatch(s)

\* Step 2 from the mission embedding to the first await (lines 125-163)
withProfilesToProcess(s, limited) ==
  IF Len(limited) > 0
  THEN startBatch([s EXCEPT !.candidatesToProcess = limited], 1)
  ELSE matchRank(s)

\* batch.forEach((profile, index) => { profile.embedding = data[index].embedding })
assignEmbeddings(profiles, batch) ==
  [i \in 1..Len(profiles) |->
     IF \E k \in 1..Len(batch) : batch[k] = i
     THEN [profiles[i] EXCEPT !.embedding = ProfileVector[profiles[i].id]]
     ELSE profiles[i]]

\* The missions of the match requests: the handler reads the mission text only
\* to validate it, so one valid text stands for all of them.
MatchMissions == {1, 3, 4}

\* The request arrives: lines 44-88, up to the await of getProfilesBySession.
\* Request 2 is the caller's retry of request 1, sent once the timeout
\* response has come back, with the same body.
MatchReceive(r) ==
  /\ req[r].pc = "idle"
  /\ \E user \in {1}, mission \in MatchMissions, sessionId \in 1..Len(SessionIds) :
       /\ r # 1 => /\ req[1].handler = "match" /\ req[1].timedOut
                   /\ user = req[1].user /\ mission = req[1].mission
                   /\ sessionId = req[1].sessionId
       /\ LET s == [req[r] EXCEPT !.handler = "match", !.user = user,
                                  !.mission = mission, !.sessionId = sessionId]
          IN  req' = [req EXCEPT ![r] =
                IF Missions[mission] = <<>> \/ SessionIds[sessionId] = <<>>
                THEN respond(s, 400, "required", <<>>)
                ELSE IF ~validMissionOf[mission]
                THEN respond(s, 400, "validation", <<>>)
                ELSE IF ~validSessionIdOf[sessionId]
                THEN respond(s, 400, "validation", <<>>)
                ELSE IF ~ownsSession(sessionId, user)
                THEN respond(s, 403, "unauthorized", <<>>)
                ELSE [s EXCEPT !.pc = "loading"]]
  /\ UNCHANGED <<store, sideState, config, fcall, fresult>>

\* getProfilesBySession returns: lines 91-122, up to the mission embedding call
MatchLoad(r) ==
  /\ req[r].pc = "loading" /\ req[r].handler = "match"
  /\ req' = [req EXCEPT ![r] =
       IF Len(getProfilesBySession(store, req[r].sessionId, req[r].user)) = 0
       THEN respond(req[r], 400, "noProfiles", <<>>)
       ELSE IF ~config.apiKey \/ ~config.endpoint \/ ~config.deployment
       THEN respond(req[r], 500, "configMissing", <<>>)
       ELSE [req[r] EXCEPT
               !.pc = "missionEmbedding",
               !.profiles = getProfilesBySession(store, req[r].sessionId, req[r].user),
               !.loadedWithEmbedding =
                  withEmbedding(getProfilesBySession(store, req[r].sessionId, req[r].user)),
               !.embeddingCalls.issued = @ + 1]]
  /\ UNCHANGED <<store, sideState, config, fcall, fresult>>

\* The mission embedding call returns or throws (lines 118-123)
MatchMissionEmbedded(r) ==
  /\ req[r].pc = "missionEmbedding" /\ req[r].handler = "match"
  /\ \E ok \in BOOLEAN :
       req' = [req EXCEPT ![r] =
         IF ok
         THEN withProfilesToProcess(
                [req[r] EXCEPT !.missionEmbedding = MissionVector[req[r].mission]],
                limitedProfilesToProcess(req[r].profiles))
         ELSE respond([req[r] EXCEPT !.embeddingCalls.failed = @ + 1],
                      500, "matchFailed", <<>>)]
  /\ UNCHANGED <<store, sideState, config, fcall, fresult>>

\* The embedding call of the running batch returns, throws or runs into its
\* own 30 s timeout (lines 152-190)
MatchBatchDone(r) ==
  /\ req[r].pc = "embedding" /\ req[r].handler = "match"
  /\ \E ok \in BOOLEAN :
       req' = [req EXCEPT ![r] =
         IF ok
         THEN [req[r] EXCEPT
                 !.pc = "saving",
                 !.profiles = assignEmbeddings(@, matchBatches(req[r])[req[r].batchIndex]),
                 !.batchLog = Append(@, "ok")]
         ELSE batchFailed([req[r] EXCEPT !.embeddingCalls.failed = @ + 1,
                                         !.failedBatches = @ + 1,
                                         !.batchLog = Append(@, "failed")])]
  /\ UNCHANGED <<store, sideState, config, fcall, fresult>>

\* await saveProfiles(profiles, user.userId) after a batch (line 176)
MatchSaveDone(r) ==
  /\ req[r].pc = "saving" /\ req[r].handler = "match"
  /\ store' = saveProfiles(store, req[r].profiles, req[r].user, requestTime(r))
  /\ req' = [req EXCEPT ![r] =
       nextBatch([req[r] EXCEPT !.storeWrites = @ + Len(req[r].profiles)])]
  /\ UNCHANGED <<sideState, config, fcall, fresult>>

\* One reasoning call returns or throws (lines 208-259); there is no filter on
\* the text in this handler.
MatchReasoningDone(r) ==
  /\ req[r].pc = "reasoning" /\ req[r].handler = "match"
  /\ \E i \in 1..Len(req[r].matches), outcome \in {"positive", "empty", "error"} :
       /\ req[r].reasoning[i] = "pending"
       /\ req' = [req EXCEPT ![r] =
            IF \E j \in 1..Len(req[r].matches) : j # i /\ req[r].reasoning[j] = "pending"
            THEN [req[r] EXCEPT
                    !.reasoning[i] = reasoningOf(outcome),
                    !.chatCalls.failed = IF outcome = "error" THEN @ + 1 ELSE @]
            ELSE [req[r] EXCEPT
                    !.reasoning[i] = reasoningOf(outcome),
                    !.chatCalls.failed = IF outcome = "error" THEN @ + 1 ELSE @,
                    !.pc = "recommending",
                    !.chatCalls.issued = @ + 1]]
  /\ UNCHANGED <<store, sideState, config, fcall, fresult>>

\* [id, similarity, reasoning] of every match: matchReasons of the response
matchReasons(s) ==
  [i \in 1..Len(s.matches) |->
     [id |-> s.matches[i].id, similarity |-> s.matches[i].similarity,
      reasoning |-> s.reasoning[i]]]

\* The recommendation call returns or throws (lines 290-338)
MatchRecommendationDone(r) ==
  /\ req[r].pc = "recommending" /\ req[r].handler = "match"
  /\ \E ok \in BOOLEAN :
       req' = [req EXCEPT ![r] =
         IF ok THEN respond(req[r], 200, "success", matchReasons(req[r]))
         ELSE respond([req[r] EXCEPT !.chatCalls.failed = @ + 1],
                      500, "matchFailed", <<>>)]
  /\ UNCHANGED <<store, sideState, config, fcall, fresult>>

\* The records of the store that carry an embedding
persisted(docs) == withEmbedding(docs)

\* The 240 s timer fires before the handler's promise has settled (lines 39-41
\* and 341-357): the caller gets the 408 response; the handler is not stopped.
MatchTimeout(r) ==
  /\ req[r].handler = "match" /\ req[r].pc \notin {"idle", "done"}
  /\ ~req[r].timedOut
  /\ req' = [req EXCEPT ![r] =
       [req[r] EXCEPT !.timedOut = TRUE, !.timeoutPc = req[r].pc,
                      !.persistedAtTimeout = persisted(store),
                      !.response = [status |-> 408, kind |-> "timeout", matches |-> <<>>]]]
  /\ UNCHANGED <<store, sideState, config, fcall, fresult>>

\* The number of Pool records in the session of the store before a match
\* request, and before a request that is retried after its timeout
NumMatchProfiles == 9
NumRetryProfiles == 4

\* One match request.  The session holds records 2.. of Pool, of which the
\* vectors of two (records 3 and 4) are similar enough to the mission's.
InitMatch ==
  /\ \E n \in {0, NumMatchProfiles}, stored \in {{}, {3, 4}, 2..(NumMatchProfiles + 1)} :
       store = InitialStore(1, n, stored)
  /\ config \in [apiKey : BOOLEAN, endpoint : {TRUE}, deployment : BOOLEAN]
  /\ req = [r \in Requests |-> IdleRequest]
  /\ NoSideState
  /\ fcall = NoCall
  /\ fresult = NoResult

NextMatch ==
  \E r \in {1} :
    \/ MatchReceive(r)
    \/ MatchLoad(r)
    \/ MatchMissionEmbedded(r)
    \/ MatchBatchDone(r)
    \/ MatchSaveDone(r)
    \/ MatchReasoningDone(r)
    \/ MatchRecommendationDone(r)
    \/ MatchTimeout(r)

SpecMatch == InitMatch /\ [][NextMatch]_vars

\* A match request and its retry: request 1 goes on in the background after its
\* timeout while request 2 runs.  The session holds records 4.. of Pool, of
\* which the vector of one (record 4) is similar enough to the mission's.
InitRetry ==
  /\ \E stored \in {{}, {5}} : store = InitialStore(3, NumRetryProfiles, stored)
  /\ config = [apiKey |-> TRUE, endpoint |-> TRUE, deployment |-> TRUE]
  /\ req = [r \in Requests |-> IdleRequest]
  /\ NoSideState
  /\ fcall = NoCall
  /\ fresult = NoResult

NextRetry ==
  \E r \in Requests :
    \/ MatchReceive(r)
    \/ MatchLoad(r)
    \/ MatchMissionEmbedded(r)
    \/ MatchBatchDone(r)
    \/ MatchSaveDone(r)
    \/ MatchReasoningDone(r)
    \/ MatchRecommendationDone(r)
    \/ MatchTimeout(r)

SpecRetry == InitRetry /\ [][NextRetry]_vars

-----------------------------------------------------------------------------
(* findTopMatches as a pure function: SpecRanker                            *)

\* The profiles Init hands to findTopMatches.  Records 1, 2 and 3 have the same
\* key 'a-buildco'; record 1 has no embedding; record 5 has no company; the
\* vector of record 7 is shorter than the mission vectors.
RankProfiles ==
  << [id |-> 1, name |-> <<"A">>, company |-> <<"B","u","i","l","d","C","o">>,
      embedding |-> <<>>],
     [id |-> 2, name |-> <<" ","a"," ">>, company |-> <<"B","U","I","L","D","C","O">>,
      embedding |-> <<1, 1>>],
     [id |-> 3, name |-> <<"A">>, company |-> <<"B","u","i","l","d","C","o">>,
      embedding |-> <<1, 0>>],
     [id |-> 4, name |-> <<"B">>, company |-> <<"C","a","f","e">>,
      embedding |-> <<1, 3>>],
     [id |-> 5, name |-> <<"C">>, company |-> <<>>,
      embedding |-> <<1, 4>>],
     [id |-> 6, name |-> <<"D">>, company |-> <<"A","c","m","e">>,
      embedding |-> <<-1, 0>>],
     [id |-> 7, name |-> <<"E">>, company |-> <<"X">>,
      embedding |-> <<1>>] >>

RankMissionVectors == {<<1, 0>>, <<0, 0>>}

RankThresholds == {0, (3 * Scale) \div 10}

\* Every list of at most MaxRankLen records of RankProfiles
RankLists ==
  UNION {[1..n -> 1..Len(RankProfiles)] : n \in 0..MaxRankLen}

\* The parts of the state the pure-function specifications leave alone
QuietSystem ==
  /\ store = <<>>
  /\ config = [apiKey |-> TRUE, endpoint |-> TRUE, deployment |-> TRUE]
  /\ req = [r \in Requests |-> IdleRequest]
  /\ NoSideState

InitRanker ==
  /\ QuietSystem
  /\ \E missionEmbedding \in RankMissionVectors, list \in RankLists,
        topN \in 0..MaxTopN, minSimilarity \in RankThresholds :
       fcall = [fn |-> "findTopMatches", missionEmbedding |-> missionEmbedding,
                profiles |-> [i \in 1..Len(list) |-> RankProfiles[list[i]]],
                topN |-> topN, minSimilarity |-> minSimilarity]
  /\ fresult = NoResult

\* The call returns (or throws)
RankCall ==
  /\ fcall.fn = "findTopMatches" /\ fresult = NoResult
  /\ fresult' = [fn |-> "findTopMatches"] @@
                findTopMatches(fcall.missionEmbedding, fcall.profiles,
                               fcall.topN, fcall.minSimilarity)
  /\ UNCHANGED <<store, sideState, config, req, fcall>>

SpecRanker == InitRanker /\ [][RankCall]_vars

RankReturned == fresult.fn = "findTopMatches" /\ ~fresult.threw

\* C1: findTopMatches returns at most topN results, and every result has a
\* similarity of at least minSimilarity.
C1_TopNAndThreshold ==
  RankReturned =>
    /\ Len(fresult.matches) <= fcall.topN
    /\ \A i \in 1..Len(fresult.matches) :
         fresult.matches[i].similarity >= fcall.minSimilarity

\* C1 witness: the cap cuts (three distinct candidates, two of them above the
\* threshold, topN = 1) and the threshold cuts (a candidate below 0.3).
C1_Witness ==
  /\ RankReturned
  /\ fcall.topN = 1 /\ Len(fresult.matches) = 1
  /\ fcall.minSimilarity > 0
  /\ Len(fcall.profiles) = 3
  /\ {fcall.profiles[i].id : i \in 1..3} = {3, 4, 5}

\* C2: when a key occurs twice in the input and only the second occurrence has
\* an embedding, the second occurrence is not in the output.
C2_FirstSeenKept ==
  RankReturned =>
    \A i \in 1..Len(fcall.profiles), j \in 1..Len(fcall.profiles) :
      ( /\ i < j
        /\ profileKey(fcall.profiles[i]) = profileKey(fcall.profiles[j])
        /\ \A k \in 1..(j - 1) : profileKey(fcall.profiles[k]) = profileKey(fcall.profiles[j])
                                   => Len(fcall.profiles[k].embedding) = 0
        /\ Len(fcall.profiles[j].embedding) > 0 )
      => \A m \in 1..Len(fresult.matches) : fresult.matches[m].id # fcall.profiles[j].id

-----------------------------------------------------------------------------
(* The strict prefilter as a pure function: SpecPrefilter                   *)

\* Every list of at most MaxBaseLen record numbers of Pool
BaseLists == UNION {[1..n -> 1..Len(Pool)] : n \in 0..MaxBaseLen}

\* k copies of the list base, one after the other
repeated(base, k) ==
  [i \in 1..(k * Len(base)) |-> base[((i - 1) % Len(base)) + 1]]

\* Every list of at most MaxTailLen record numbers of Pool
TailLists == UNION {[1..n -> 1..Len(Pool)] : n \in 0..MaxTailLen}

\* The missions that pass validateMissionStatement
ValidMissions == {m \in 1..Len(Missions) : validMissionOf[m]}

InitPrefilter ==
  /\ QuietSystem
  /\ \E mission \in ValidMissions, base \in BaseLists, k \in 0..MaxRepeat,
          tail \in TailLists :
       fcall = [fn |-> "strictPrefilter", mission |-> mission,
                profiles |-> [i \in 1..(k * Len(base) + Len(tail)) |->
                                [id |-> (repeated(base, k) \o tail)[i],
                                 uploadSessionId |-> 1, embedding |-> <<>>]]]
  /\ fresult = NoResult

\* Step 2 of the strict handler returns topCandidates
PrefilterCall ==
  /\ fcall.fn = "strictPrefilter" /\ fresult = NoResult
  /\ fresult' = [fn |-> "strictPrefilter",
                 top |-> strictPrefilter(fcall.mission, fcall.profiles)]
  /\ UNCHANGED <<store, sideState, config, req, fcall>>

SpecPrefilter == InitPrefilter /\ [][PrefilterCall]_vars

-----------------------------------------------------------------------------
(* upload-csv, scrape-profile and the DELETE handler of search-profiles     *)

\* Longest CSV file of the model, in rows, and the number of requests to the
\* three handlers in a run
MaxCsvRows == 2
MaxStoreOps == 3

\* The Pool records a CSV row or an enrichment can carry: records 1 and 12
\* have the same uniqueKey
CsvRecords == {1, 2, 12}

CsvFiles == UNION {[1..n -> CsvRecords] : n \in 0..MaxCsvRows}

\* parseLinkedInCSV(rows, sessionId): one Profile per row, without embedding
parseLinkedInCSV(rows, sessionId) ==
  [i \in 1..Len(rows) |-> [id |-> rows[i], uploadSessionId |-> sessionId, embedding |-> <<>>]]

\* addProfile(profile, userId): replaceOne({uniqueKey}, linkedinProfile, {upsert: true})
addProfile(docs, profile, userId, now) ==
  replaceOneUpsert(docs, [id |-> profile.id, userId |-> userId,
                          uploadSessionId |-> profile.uploadSessionId,
                          embedding |-> profile.embedding, uploadedAt |-> now])

\* addProfiles(newProfiles, userId): bulkWrite of one replaceOne with upsert
\* per profile, applied in order
RECURSIVE addProfiles(_, _, _, _)
addProfiles(docs, newProfiles, userId, now) ==
  IF newProfiles = <<>> THEN docs
  ELSE addProfiles(addProfile(docs, Head(newProfiles), userId, now),
                   Tail(newProfiles), userId, now)

\* clearProfilesBySession: deleteMany({uploadSessionId: sessionId, userId})
clearProfilesBySession(docs, sessionId, userId) ==
  LET kept(doc) == ~(doc.uploadSessionId = sessionId /\ doc.userId = userId)
  IN  SelectSeq(docs, kept)

\* `${operation}-${user.userId}-`, the start of what generateUserSessionId returns
sessionPrefix(operation, userId) == operation \o Dash \o UserIds[userId] \o Dash

\* generateUserSessionId(user, operation): Date.now() and the random suffix
\* make an id that was not issued before; of the ids of the model with the
\* prefix it is the first one not issued yet (0 when the model has no more).
\* The ids of the model write one number for `${Date.now()}-${random}`, so what
\* follows the prefix has no hyphen
generateUserSessionId(userId, operation, issued) ==
  LET prefix == sessionPrefix(operation, userId)
      free == {k \in 1..Len(SessionIds) :
                 /\ startsWith(SessionIds[k], prefix)
                 /\ ~includes(SubSeq(SessionIds[k], Len(prefix) + 1, Len(SessionIds[k])), Dash)
                 /\ \A u \in issued : u.sessionId # k}
  IN  IF free = {} THEN 0 ELSE Min(free)

OpUpload == <<"u","p","l","o","a","d">>
OpScrape == <<"s","c","r","a","p","e">>

\* fcall is the last request to one of the three handlers and fresult what
\* they have returned: the status of the last response, the number of
\* responses and, for every session id issued, the rows stored under it.
NoSessions == [fn |-> "store", status |-> 0, ops |-> 0, issued |-> {}]

\* upload-csv handlePost (lines 23-102): an empty file is refused, else the rows
\* are stored under a new session id
UploadCsv ==
  \E user \in {1}, rows \in CsvFiles :
    LET sessionId == generateUserSessionId(user, OpUpload, fresult.issued)
    IN  /\ fresult.ops < MaxStoreOps
        /\ sessionId # 0
        /\ fcall' = [fn |-> "upload", user |-> user,
                     sessionId |-> IF Len(rows) = 0 THEN 0 ELSE sessionId]
        /\ IF Len(rows) = 0
           THEN /\ fresult' = [fresult EXCEPT !.status = 400, !.ops = @ + 1]
                /\ UNCHANGED store
           ELSE /\ store' = addProfiles(store, parseLinkedInCSV(rows, sessionId), user,
                                        sessionTime(sessionId))
                /\ fresult' = [fresult EXCEPT !.status = 200, !.ops = @ + 1,
                                 !.issued = @ \cup {[sessionId |-> sessionId, rows |-> rows]}]
        /\ UNCHANGED <<sideState, config, req>>

\* scrape-profile handlePost (lines 7-96) when the scraper answers with a
\* profile: it is stored under a new session id of its own
ScrapeProfile ==
  \E user \in {1}, record \in CsvRecords :
    LET sessionId == generateUserSessionId(user, OpScrape, fresult.issued)
    IN  /\ fresult.ops < MaxStoreOps
        /\ sessionId # 0
        /\ fcall' = [fn |-> "scrape", user |-> user, sessionId |-> sessionId]
        /\ store' = addProfile(store, [id |-> record, uploadSessionId |-> sessionId,
                                       embedding |-> <<>>], user, sessionTime(sessionId))
        /\ fresult' = [fresult EXCEPT !.status = 200, !.ops = @ + 1,
                         !.issued = @ \cup {[sessionId |-> sessionId, rows |-> <<record>>]}]
        /\ UNCHANGED <<sideState, config, req>>

\* search-profiles handleDelete (lines 1034-1066)
ClearSession ==
  \E user \in {1}, sessionId \in 1..Len(SessionIds) :
    /\ fresult.ops < MaxStoreOps
    /\ fcall' = [fn |-> "clear", user |-> user, sessionId |-> sessionId]
    /\ IF ~validSessionIdOf[sessionId]
       THEN fresult' = [fresult EXCEPT !.status = 400, !.ops = @ + 1] /\ UNCHANGED store
       ELSE IF ~ownsSession(sessionId, user)
       THEN fresult' = [fresult EXCEPT !.status = 403, !.ops = @ + 1] /\ UNCHANGED store
       ELSE /\ store' = clearProfilesBySession(store, sessionId, user)
            /\ fresult' = [fresult EXCEPT !.status = 200, !.ops = @ + 1]
    /\ UNCHANGED <<sideState, config, req>>

InitStore ==
  /\ QuietSystem
  /\ fcall = NoCall
  /\ fresult = NoSessions

\* The handlers that write to the store, and among them one match request
\* that passes the validation of its body
NextStore ==
  \/ UploadCsv
  \/ ScrapeProfile
  \/ ClearSession
  \/ \E r \in {1} :
       \/ MatchReceive(r) /\ req'[r].pc = "loading"
       \/ MatchLoad(r)
       \/ MatchMissionEmbedded(r)
       \/ MatchBatchDone(r)
       \/ MatchSaveDone(r)
       \/ MatchReasoningDone(r)
       \/ MatchRecommendationDone(r)

SpecStore == InitStore /\ [][NextStore]_vars
-----------------------------------------------------------------------------
(* cosineSimilarity as a pure function: SpecCosine                          *)

\* Longest vector and largest coordinate, in absolute value, handed to
\* cosineSimilarity in SpecCosine
MaxDim == 2
MaxCoord == 2

InitCosine ==
  /\ QuietSystem
  /\ \E a, b \in UNION {[1..n -> (0 - MaxCoord)..MaxCoord] : n \in 0..MaxDim} :
       fcall = [fn |-> "cosineSimilarity", a |-> a, b |-> b]
  /\ fresult = NoResult

\* The call returns or throws
CosineCall ==
  /\ fcall.fn = "cosineSimilarity" /\ fresult = NoResult
  /\ fresult' = [fn |-> "cosineSimilarity", threw |-> cosineThrows(fcall.a, fcall.b),
                 value |-> IF cosineThrows(fcall.a, fcall.b) THEN 0
                           ELSE cosineSimilarity(fcall.a, fcall.b)]
  /\ UNCHANGED <<store, sideState, config, req, fcall>>

SpecCosine == InitCosine /\ [][CosineCall]_vars

-----------------------------------------------------------------------------
(* The primary industry and the score of one profile: SpecIndustry          *)

\* Mission texts for the detection of the primary industry: 'digital' is a
\* keyword of technology and of marketing, the second text has no keyword, and
\* 'development' is a keyword of construction and of sales
IndustryMissions ==
  <<
    <<"N","e","e","d"," ","d","i","g","i","t","a","l"," ","p","e","o","p","l","e">>,  \* 'Need digital people'
    <<"F","i","n","d"," ","p","e","o","p","l","e"," ","n","e","a","r"," ","A","u","s","t","i","n">>,  \* 'Find people near Austin'
    <<"M","a","r","k","e","t","i","n","g"," ","a","n","d"," ","b","r","a","n","d"," ","e","x","p","e","r","t","s">>,  \* 'Marketing and brand experts'
    <<"B","u","s","i","n","e","s","s"," ","d","e","v","e","l","o","p","m","e","n","t"," ","l","e","a","d">>,  \* 'Business development lead'
    <<"L","o","o","k","i","n","g"," ","f","o","r"," ","c","o","n","s","t","r","u","c","t","i","o","n"," ","c","o","n","t","r","a","c","t","o","r","s">>  \* 'Looking for construction contractors'
  >>

InitIndustry ==
  /\ QuietSystem
  /\ \E m \in 1..Len(IndustryMissions), id \in 1..Len(Pool) :
       fcall = [fn |-> "scoreProfile", mission |-> IndustryMissions[m], profile |-> Pool[id]]
  /\ fresult = NoResult

\* The detection loop and the map callback of scoredProfiles for one profile
ScoreCall ==
  /\ fcall.fn = "scoreProfile" /\ fresult = NoResult
  /\ fresult' = [fn |-> "scoreProfile",
                 primaryIndustry |-> primaryIndustry(fcall.mission),
                 textScore |-> textScore(fcall.mission, fcall.profile)]
  /\ UNCHANGED <<store, sideState, config, req, fcall>>

SpecIndustry == InitIndustry /\ [][ScoreCall]_vars

-----------------------------------------------------------------------------
(* Two saves into an empty collection: SpecKey                              *)

InitKey ==
  /\ QuietSystem
  /\ \E userA \in 1..Len(UserIds), userB \in 1..Len(UserIds),
        a \in {1, 12, 13, 14, 15}, b \in {1, 12, 13, 14, 15} :
       fcall = [fn |-> "addProfile", first |-> [user |-> userA, id |-> a],
                second |-> [user |-> userB, id |-> b]]
  /\ fresult = NoResult

\* addProfile(first), then addProfile(second)
KeyCall ==
  /\ fcall.fn = "addProfile" /\ fresult = NoResult
  /\ fresult' =
       [fn |-> "addProfile",
        docs |-> addProfile(
                   addProfile(<<>>, [id |-> fcall.first.id, uploadSessionId |-> 1,
                                    embedding |-> <<>>], fcall.first.user, ImportTime),
                   [id |-> fcall.second.id, uploadSessionId |-> 1, embedding |-> <<>>],
                   fcall.second.user, ImportTime)]
  /\ UNCHANGED <<store, sideState, config, req, fcall>>

SpecKey == InitKey /\ [][KeyCall]_vars
-----------------------------------------------------------------------------
(* save-user-data handlePost: SpecSave                                      *)

\* The last clock tick, the five minutes of the duplicate check in ticks, and
\* the longest history a save request is sent to
MaxClock == 3
DedupWindow == 2
MaxHistory == 2

\* const newMatch = {id: `match_${Date.now()}`, mission, matches, ...,
\* createdAt: new Date()}; matches is kept by its length
newMatch(mission, matches, now) ==
  [id |-> now, mission |-> mission, matches |-> matches, createdAt |-> now]

\* existingUser.matches.find(...): a record of the same mission and the same
\* number of matches created less than five minutes away
existingMatch(history, new) ==
  \E i \in 1..Len(history) :
    /\ history[i].mission = new.mission
    /\ history[i].matches = new.matches
    /\ history[i].createdAt - new.createdAt < DedupWindow
    /\ new.createdAt - history[i].createdAt < DedupWindow

\* The body arrives and findOne({email}) returns; updateData (or newUser) is
\* built before the next await.  mission = 0 is a body without a mission,
\* 1 and 2 are two of Missions
SaveFind(r) ==
  \E user \in {1}, mission \in 0..2, matches \in 0..1 :
    LET existingUser == users[user]
        new == newMatch(mission, matches, clock)
        provided == matches > 0 /\ mission # 0
    IN  /\ req[r].pc \in {"idle", "done"}
        /\ Len(existingUser.matches) < MaxHistory
        /\ req' = [req EXCEPT ![r] =
             [pc |-> IF existingUser.exists THEN "updating" ELSE "inserting",
              user |-> user, existingUser |-> existingUser,
              newMatch |-> IF provided THEN new ELSE <<>>,
              setsMatches |-> provided /\ (existingUser.exists =>
                                ~existingMatch(existingUser.matches, new)),
              status |-> 0]]
        /\ UNCHANGED <<store, config, users, rateLimitStore, clock, fcall, fresult>>

\* updateOne({email}, {$set: updateData}): matches is set to the array built
\* from the document that findOne returned
SaveUpdate(r) ==
  /\ req[r].pc = "updating"
  /\ users' = [users EXCEPT ![req[r].user].matches =
                 IF req[r].setsMatches
                 THEN Append(req[r].existingUser.matches, req[r].newMatch)
                 ELSE @]
  /\ req' = [req EXCEPT ![r].pc = "done", ![r].status = 200]
  /\ UNCHANGED <<store, config, rateLimitStore, clock, fcall, fresult>>

\* insertOne(newUser); the unique index on email rejects a second document
SaveInsert(r) ==
  /\ req[r].pc = "inserting"
  /\ IF users[req[r].user].exists
     THEN /\ req' = [req EXCEPT ![r].pc = "done", ![r].status = 500]
          /\ UNCHANGED users
     ELSE /\ users' = [users EXCEPT ![req[r].user] =
                 [exists |-> TRUE,
                  matches |-> IF req[r].setsMatches THEN <<req[r].newMatch>> ELSE <<>>]]
          /\ req' = [req EXCEPT ![r].pc = "done", ![r].status = 200]
  /\ UNCHANGED <<store, config, rateLimitStore, clock, fcall, fresult>>

\* Time passes
Tick ==
  /\ clock < MaxClock
  /\ clock' = clock + 1
  /\ UNCHANGED <<store, config, req, users, rateLimitStore, fcall, fresult>>

InitSave ==
  /\ store = <<>>
  /\ config = [apiKey |-> TRUE, endpoint |-> TRUE, deployment |-> TRUE]
  /\ req = [r \in Requests |->
              [pc |-> "idle", user |-> 0, existingUser |-> NoUser, newMatch |-> <<>>,
               setsMatches |-> FALSE, status |-> 0]]
  /\ NoSideState
  /\ fcall = NoCall
  /\ fresult = NoResult

SpecSave ==
  InitSave /\ [][(\E r \in Requests : SaveFind(r) \/ SaveUpdate(r) \/ SaveInsert(r))
                 \/ Tick]_vars

-----------------------------------------------------------------------------
(* Searches and clears of one user next to other users' candidates: SpecGuard *)

\* The session of user 'u1' next to what uploads of users 'u2' and 'u1-2' have
\* stored under their session ids
InitGuard ==
  /\ store = InitialStore(0, NumProfiles, {}) \o
             << [id |-> 7, userId |-> 2, uploadSessionId |-> 2, embedding |-> <<>>,
              uploadedAt |-> ImportTime],
             [id |-> 3, userId |-> 3, uploadSessionId |-> 6, embedding |-> ProfileVector[3],
              uploadedAt |-> ImportTime],
             [id |-> 8, userId |-> 3, uploadSessionId |-> 6, embedding |-> <<>>,
              uploadedAt |-> ImportTime] >>
  /\ config = [apiKey |-> TRUE, endpoint |-> TRUE, deployment |-> TRUE]
  /\ req = [r \in Requests |-> IdleRequest]
  /\ NoSideState
  /\ fcall = NoCall
  /\ fresult = NoSessions

SpecGuard == InitGuard /\ [][NextSearch \/ ClearSession]_vars
-----------------------------------------------------------------------------
(* The rate limiter of rate-limit.ts: SpecRate                              *)

\* The number of checkRateLimit calls of a behaviour
MaxRateCalls == 3

\* checkRateLimit(identifier, config) at Date.now() = now on the Map limits:
\* the Map after the call and the object returned; limit is the parameter config
checkRateLimit(limits, identifier, limit, now) ==
  LET key == <<identifier, limit.windowMs>>  \* `${identifier}:${config.windowMs}`
      entry == limits[key]
  IN  IF entry = NoEntry \/ now > entry.resetTime
      THEN [limits |-> [limits EXCEPT ![key] =
                          [count |-> 1, resetTime |-> now + limit.windowMs]],
            isAllowed |-> TRUE, remaining |-> limit.maxRequests - 1,
            resetTime |-> now + limit.windowMs]
      ELSE IF entry.count >= limit.maxRequests
      THEN [limits |-> limits, isAllowed |-> FALSE, remaining |-> 0,
            resetTime |-> entry.resetTime]
      ELSE [limits |-> [limits EXCEPT ![key].count = @ + 1],
            isAllowed |-> TRUE, remaining |-> limit.maxRequests - (entry.count + 1),
            resetTime |-> entry.resetTime]

\* cleanupRateLimitStore(): the expired entries are deleted
cleanupRateLimitStore(limits, now) ==
  [k \in DOMAIN limits |->
     IF limits[k] # NoEntry /\ now > limits[k].resetTime THEN NoEntry ELSE limits[k]]

\* fresult is what the last call returned, with the calls made so far.
\* withRateLimit: a request of one of two identifiers reaches an endpoint
RateCheck ==
  \E identifier \in {1, 2}, name \in DOMAIN RATE_LIMITS :
    LET result == checkRateLimit(rateLimitStore, identifier, RATE_LIMITS[name], clock)
    IN  /\ Len(fresult.calls) < MaxRateCalls
        /\ rateLimitStore' = result.limits
        /\ fcall' = [fn |-> "checkRateLimit", identifier |-> identifier, config |-> name]
        /\ fresult' = [fn |-> "checkRateLimit", isAllowed |-> result.isAllowed,
                       remaining |-> result.remaining, resetTime |-> result.resetTime,
                       calls |-> Append(fresult.calls,
                                   [identifier |-> identifier, config |-> name,
                                    now |-> clock, isAllowed |-> result.isAllowed])]
        /\ UNCHANGED <<store, config, req, users, clock>>

\* setInterval(cleanupRateLimitStore, 5 * 60 * 1000)
RateCleanup ==
  /\ rateLimitStore' = cleanupRateLimitStore(rateLimitStore, clock)
  /\ rateLimitStore' # rateLimitStore
  /\ UNCHANGED <<store, config, req, users, clock, fcall, fresult>>

InitRate ==
  /\ QuietSystem
  /\ fcall = NoCall
  /\ fresult = [fn |-> "none", calls |-> <<>>]

SpecRate == InitRate /\ [][RateCheck \/ RateCleanup \/ Tick]_vars
-----------------------------------------------------------------------------
(* Properties                                                               *)

\* The numbers of the elements of a sequence of record numbers
Range(s) == {s[i] : i \in 1..Len(s)}

\* The candidates the Resolver stage of a request works on: topCandidates in
\* search-profiles, every loaded profile in match-profiles (it has no prefilter)
resolverCandidates(s) == IF s.handler = "search" THEN s.topCandidates ELSE s.profiles

\* Every embedding attempt for the candidates was made and failed: the request
\* is past the Resolver stage and no candidate has an embedding.
allEmbeddingsFailed(s) ==
  /\ s.pc \in {"reasoning", "recommending", "done"}
  /\ s.submitted # <<>>
  /\ \A i \in 1..Len(resolverCandidates(s)) : ~hasEmbedding(resolverCandidates(s)[i])

\* C3: when every candidate leaves the Resolver stage without an embedding, the
\* caller gets a 200 response marked as text analysis that holds the first
\* min(6, n) candidates in descending text-score order, each with similarity
\* textScore / 10 and the fallback reasoning.
C3_TextFallback ==
  \A r \in Requests :
    (allEmbeddingsFailed(req[r]) /\ req[r].pc = "done" /\ ~req[r].timedOut) =>
      LET s == req[r]
          got == s.response.matches
      IN  /\ s.response.status = 200 /\ s.response.kind = "textAnalysis"
          /\ Len(got) = IF Len(resolverCandidates(s)) < SearchTopN
                         THEN Len(resolverCandidates(s)) ELSE SearchTopN
          /\ \A i \in 1..Len(got) :
               /\ got[i].similarity = (textScoreOf[s.mission][got[i].id] * Scale) \div 10
               /\ got[i].reasoning = "textAnalysis"
               /\ i > 1 => got[i - 1].similarity >= got[i].similarity

\* Every call of one provider in the request was issued and failed
providerUnavailable(calls) == calls.issued > 0 /\ calls.failed = calls.issued

\* C4: a request in which every embedding call failed, or every text-generation
\* call failed, is not answered with status 500.
C4_NoHardFailure ==
  \A r \in Requests :
    ( /\ req[r].pc = "done"
      /\ providerUnavailable(req[r].embeddingCalls) \/ providerUnavailable(req[r].chatCalls) )
    => req[r].response.status # 500

\* The timer of request 1 fired while its batch loop was running
timedOutMidBatch == req[1].timedOut /\ req[1].timeoutPc \in {"embedding", "saving"}

C6_OnlyMissingSubmitted ==
  \A r \in Requests :
    /\ Range(req[r].submitted) \cap req[r].loadedWithEmbedding = {}
    /\ \A k \in 1..Len(req[r].submitted) :
         \E i \in 1..Len(req[r].profiles) : req[r].profiles[i].id = req[r].submitted[k]
    /\ \A k \in 1..Len(req[r].submitted), l \in 1..Len(req[r].submitted) :
         req[r].submitted[k] = req[r].submitted[l] => k = l

\* C6 witness: the Resolver has sent candidates while another prefiltered
\* candidate had its embedding in the store already.
C6_Witness ==
  \E r \in Requests :
    /\ req[r].handler = "search"
    /\ Len(req[r].submitted) >= 2
    /\ \E i \in 1..Len(req[r].topCandidates) :
         req[r].topCandidates[i].id \in req[r].loadedWithEmbedding

PrefilterReturned == fresult.fn = "strictPrefilter"

\* C7: the strict prefilter returns at most 15 candidates, each with a text
\* score above 0 that is the score of its texts, in descending order of score;
\* for the mission 'Looking for construction contractors in Texas' profile A
\* (General Contractor, BuildCo, Texas) scores above 0 and is kept when fewer
\* than 15 candidates score, and profile B (Barista, Cafe) scores 0 and is
\* never returned.
C7_StrictPrefilter ==
  PrefilterReturned =>
    LET top == fresult.top
        scoring == {i \in 1..Len(fcall.profiles) :
                      textScoreOf[fcall.mission][fcall.profiles[i].id] > 0}
    IN  /\ Len(top) <= 15
        /\ \A i \in 1..Len(top) :
             /\ top[i].textScore > 0
             /\ top[i].textScore = textScoreOf[fcall.mission][top[i].profile.id]
             /\ i > 1 => top[i - 1].textScore >= top[i].textScore
        /\ Len(top) = IF Cardinality(scoring) < 15 THEN Cardinality(scoring) ELSE 15
        /\ fcall.mission = 1 =>
             /\ textScoreOf[1][1] > 0
             /\ textScoreOf[1][2] = 0
             /\ \A i \in 1..Len(top) : top[i].profile.id # 2
             /\ (Cardinality(scoring) < 15 /\ 1 \in {fcall.profiles[i].id : i \in scoring})
                  => \E i \in 1..Len(top) : top[i].profile.id = 1

\* C7 witness: more than 15 of the profiles score, so the cap cuts, and B is
\* among the profiles.
C7_Witness ==
  /\ PrefilterReturned
  /\ fcall.mission = 1
  /\ Len(fresult.top) = 15
  /\ Len(fcall.profiles) = 19
  /\ \E i \in 1..Len(fcall.profiles) : fcall.profiles[i].id = 2

\* The batches of the request that have a request in flight
batchesInFlight(s) ==
  {b \in 1..Len(batches(s)) : \E i \in 1..Len(batches(s)[b]) : batches(s)[b][i] \in s.inflight}

\* The candidates (positions) of the batch groups after group g
laterGroups(s, g) ==
  UNION {groupCandidates(s, h) : h \in (g + 1)..Len(batchGroups(s))}

\* C8: at most maxConcurrentBatches batches of at most batchSize candidates are
\* in flight; the requests in flight all belong to the current batch group, and
\* no candidate of a later group has been sent.
C8_GroupsInTurn ==
  \A r \in Requests :
    (req[r].handler = "search" /\ req[r].groupIndex > 0) =>
      /\ Cardinality(batchesInFlight(req[r])) <= MaxConcurrentBatches
      /\ \A b \in 1..Len(batches(req[r])) : Len(batches(req[r])[b]) <= SearchBatchSize
      /\ req[r].inflight \subseteq groupCandidates(req[r], req[r].groupIndex)
      /\ \A p \in laterGroups(req[r], req[r].groupIndex) :
           req[r].topCandidates[p].id \notin Range(req[r].submitted)

\* C8 witness: the second group is in flight, the first one has completed with a
\* failure in it, and a full group of full batches was in flight before.
C8_Witness ==
  \E r \in Requests :
    /\ req[r].handler = "search" /\ req[r].pc = "embedding"
    /\ req[r].groupIndex = 2 /\ req[r].inflight # {}
    /\ req[r].embeddingCalls.failed > 0
    /\ Len(req[r].candidatesToProcess) > SearchBatchSize * MaxConcurrentBatches

\* The batch loop of a match request is over
afterBatchLoop(s) == s.handler = "match" /\ s.pc \in {"reasoning", "recommending", "done"}
                       /\ s.missionEmbedding # <<>>

\* The loop ended with batches it never sent
abortedBatches(s) == afterBatchLoop(s) /\ Len(s.batchLog) < Len(matchBatches(s))

\* The last n batches sent have all failed
lastFailed(s, n) ==
  /\ Len(s.batchLog) >= n
  /\ \A i \in (Len(s.batchLog) - n + 1)..Len(s.batchLog) : s.batchLog[i] = "failed"

\* C9 as stated: the batch loop is aborted exactly when 3 batches in a row have
\* failed.
C9_ConsecutiveFailuresAbort ==
  \A r \in Requests :
    /\ abortedBatches(req[r]) => lastFailed(req[r], 3)
    /\ lastFailed(req[r], 3) => req[r].pc \notin {"embedding", "saving"}

\* The number of failed batches in the log
failedInLog(s) == Cardinality({i \in 1..Len(s.batchLog) : s.batchLog[i] = "failed"})

\* C9 amended: the batch loop is aborted exactly when the third batch of the
\* request fails, whatever lies between the failures; after that no batch is
\* sent, and ranking runs on the embeddings there are.
C9_TotalFailuresAbort ==
  \A r \in Requests :
    req[r].handler = "match" =>
      /\ req[r].failedBatches = failedInLog(req[r])
      /\ req[r].failedBatches <= MaxFailedBatches
      /\ abortedBatches(req[r]) => req[r].failedBatches = MaxFailedBatches
      /\ req[r].failedBatches = MaxFailedBatches =>
           /\ req[r].pc \notin {"embedding", "saving"}
           /\ lastFailed(req[r], 1)
           /\ Len(req[r].submitted) <= MatchBatchSize * Len(req[r].batchLog)

\* C9 witness: failed, saved, failed, failed; the fifth batch is never sent and
\* the request is answered from the embeddings of the second batch.
C9_Witness ==
  \E r \in Requests :
    /\ abortedBatches(req[r])
    /\ req[r].batchLog = <<"failed", "ok", "failed", "failed">>
    /\ req[r].pc = "done" /\ req[r].response.status = 200

\* process.env lacks a setting the handler of the request checks
credentialsAbsent(s) ==
  ~config.apiKey \/ ~config.endpoint \/ (s.handler = "match" /\ ~config.deployment)

\* The request passes the checks that precede the configuration check
reachesConfigCheck(s) ==
  /\ s.handler \in {"search", "match"}
  /\ validMissionOf[s.mission]
  /\ SessionIds[s.sessionId] # <<>>
  /\ ownsSession(s.sessionId, s.user)
  /\ Len(getProfilesBySession(store, s.sessionId, s.user)) > 0

-----------------------------------------------------------------------------
(* Error handling of the search pipeline                                    *)

\* The mission of the request is empty or shorter than 10 characters
missionTooShort(s) == Len(trim(Missions[s.mission])) < 10

\* The request names a session of its user that holds no candidates
sessionEmpty(s) ==
  /\ ownsSession(s.sessionId, s.user)
  /\ Len(getProfilesBySession(store, s.sessionId, s.user)) = 0

\* C11: a search request with an empty or too short mission, or for a session
\* without candidates, makes no provider call and no store write, and the
\* response it ends with is a 400 that carries a message.
C11_EmptyInputRejected ==
  \A r \in Requests :
    LET s == req[r]
    IN  (s.handler = "search" /\ (missionTooShort(s) \/ sessionEmpty(s)))
          => /\ s.embeddingCalls.issued = 0
             /\ s.chatCalls.issued = 0
             /\ s.storeWrites = 0
             /\ s.pc \in {"loading", "done"}
             /\ s.pc = "done" =>
                  /\ s.response.status = 400
                  /\ s.response.kind \in {"validation", "noProfiles"}

\* C11 witness: a request with a valid mission for an empty session of its
\* user has been answered, with the provider configured.
C11_Witness ==
  /\ req[1].handler = "search" /\ req[1].pc = "done"
  /\ ~missionTooShort(req[1]) /\ sessionEmpty(req[1])
  /\ config.apiKey /\ config.endpoint
  /\ req[1].response.kind = "noProfiles"

\* The candidates (positions in topCandidates) whose embedding request has
\* been issued and has returned or thrown
settled(s) ==
  {i \in 1..Len(s.topCandidates) :
     /\ i \notin s.inflight
     /\ \E g \in 1..s.groupIndex : i \in groupCandidates(s, g)}

\* The settled candidates that are still without a vector
skipped(s) == {i \in settled(s) : ~hasEmbedding(s.topCandidates[i])}

\* How often the record id was sent to the embedding provider
timesSubmitted(s, id) == Cardinality({k \in 1..Len(s.submitted) : s.submitted[k] = id})

\* The record numbers of the candidates that have a vector
candidatesWithVector(s) ==
  {s.topCandidates[i].id : i \in {j \in 1..Len(s.topCandidates) : hasEmbedding(s.topCandidates[j])}}

genericMatches(s) == {i \in 1..Len(s.matches) : s.reasoning[i] = "generic"}

\* The match at position i of the ranking is in the response, with this reasoning
inResponse(s, i, reasoning) ==
  \E k \in 1..Len(s.response.matches) :
    /\ s.response.matches[k].id = s.matches[i].id
    /\ s.response.matches[k].similarity = s.matches[i].similarity
    /\ s.response.matches[k].reasoning = reasoning

\* C13: every failed reasoning call of a search request leaves its candidate
\* with the generic justification; in the result the candidates with the generic
\* justification and those with a justification of their own stand with their
\* similarity; and a failed reasoning call does not end the request: after one,
\* a 500 response comes from the recommendation call.
C13_GenericReasoningOnFailure ==
  \A r \in Requests :
    LET s == req[r]
    IN  (s.handler = "search" /\ Len(s.matches) > 0)
          => /\ s.response.status < 500 => s.chatCalls.failed <= Cardinality(genericMatches(s))
             /\ s.response.status >= 500 =>
                  /\ s.chatCalls.issued = Len(s.matches) + 1
                  /\ s.chatCalls.failed <= Cardinality(genericMatches(s)) + 1
             /\ ~poorMatch["generic"]
             /\ s.response.kind = "success" =>
                  \A i \in 1..Len(s.matches) :
                     /\ s.reasoning[i] = "generic" => inResponse(s, i, "generic")
                     /\ s.reasoning[i] = "positive" => inResponse(s, i, "positive")

\* C13 witness: the reasoning call of one match failed, that of another
\* returned a text, and both are in the result.
C13_Witness ==
  /\ req[1].handler = "search" /\ req[1].pc = "done"
  /\ req[1].response.kind = "success"
  /\ req[1].chatCalls.failed = 1
  /\ Cardinality(genericMatches(req[1])) = 1
  /\ \E i, j \in 1..Len(req[1].matches) :
       /\ req[1].reasoning[i] = "generic" /\ inResponse(req[1], i, "generic")
       /\ req[1].reasoning[j] = "positive" /\ inResponse(req[1], j, "positive")

\* The position in the ranking of the record id
rankOf(s, id) == CHOOSE i \in 1..Len(s.matches) : s.matches[i].id = id

\* Every reasoning call of the request has returned and every justification
\* contains a negative phrase
allDropped(s) ==
  /\ Len(s.matches) > 0
  /\ \A i \in 1..Len(s.matches) : s.reasoning[i] # "pending" /\ poorMatch[s.reasoning[i]]

\* C14: the result of a strict search holds no match whose justification
\* contains a negative phrase, holds every other ranked match, in the order of
\* the ranking, and when every ranked match is dropped the response is the
\* 200 'no relevant matches' response with an empty list.
C14_NegativeFiltered ==
  \A r \in Requests :
    LET s == req[r]
    IN  (s.handler = "search" /\ Len(s.matches) > 0)
          => /\ s.response.kind = "success" =>
                  /\ \A k \in 1..Len(s.response.matches) :
                        /\ ~poorMatch[s.response.matches[k].reasoning]
                        /\ \E i \in 1..Len(s.matches) : s.matches[i].id = s.response.matches[k].id
                  /\ \A i \in 1..Len(s.matches) :
                        ~poorMatch[s.reasoning[i]] => inResponse(s, i, s.reasoning[i])
                  /\ \A k, l \in 1..Len(s.response.matches) :
                        k < l => rankOf(s, s.response.matches[k].id)
                                   < rankOf(s, s.response.matches[l].id)
             /\ allDropped(s) =>
                  /\ s.pc = "done"
                  /\ s.response = [status |-> 200, kind |-> "noRelevantMatches", matches |-> <<>>]
             /\ s.response.kind = "noRelevantMatches" => allDropped(s)

\* C14 witness: of three ranked matches the one in the middle is dropped for
\* its justification and the two others are returned.
C14_Witness ==
  /\ req[1].handler = "search" /\ req[1].pc = "done"
  /\ req[1].response.kind = "success"
  /\ Len(req[1].matches) = 3 /\ Len(req[1].response.matches) = 2
  /\ req[1].reasoning[2] = "negative"

\* The time limit of the run has elapsed before the handler had returned
deadlinePassed(s) == s.timeoutPc # "none"

\* C15: every pipeline run is bounded by one end-to-end timeout: once the limit
\* has elapsed on a run that had not answered, the caller has the 408 response
\* and no other; a run that answers before the limit answers with its own
\* response, never with the 408.
C15_EndToEndTimeout ==
  \A r \in Requests :
    LET s == req[r]
    IN  s.handler # "none"
          => /\ deadlinePassed(s) =>
                  s.response = [status |-> 408, kind |-> "timeout", matches |-> <<>>]
             /\ (s.pc = "done" /\ ~deadlinePassed(s)) =>
                  /\ s.response # NoResponse
                  /\ s.response.status # 408

\* C16: every match a handler returns, ranked by vectors or by text score, has
\* a similarity between 0 and 1.
C16_SimilarityInUnitInterval ==
  \A r \in Requests :
    \A k \in 1..Len(req[r].response.matches) :
      /\ req[r].response.matches[k].similarity >= 0
      /\ req[r].response.matches[k].similarity <= Scale

-----------------------------------------------------------------------------
(* What the requests write to the candidate store                           *)

\* The record numbers of the candidates of a request: of a search the profiles
\* that passed the prefilter, of a match (which has no prefilter) all it loaded
candidateIds(s) ==
  IF s.handler = "search"
  THEN {s.topCandidates[i].id : i \in 1..Len(s.topCandidates)}
  ELSE {s.profiles[i].id : i \in 1..Len(s.profiles)}

\* The document after differs from the document before in nothing but an
\* embedding where there was none
embeddingFilled(before, after) ==
  /\ ~hasEmbedding(before)
  /\ after = [before EXCEPT !.embedding = after.embedding]

\* C19: a step of a search request leaves every document of the store as it
\* was, except that it may fill in the embedding of a candidate of the request
\* that had none; it adds and removes no document.
C19_OnlyEmbeddingsWritten ==
  [][/\ Len(store') = Len(store)
     /\ \A i \in 1..Len(store) :
          \/ store'[i] = store[i]
          \/ /\ embeddingFilled(store[i], store'[i])
             /\ \E r \in Requests : store[i].id \in candidateIds(req[r])]_vars

-----------------------------------------------------------------------------
(* Sessions and the candidates they own                                     *)

\* The session issued by the step, with its rows
issuedNow == CHOOSE u \in fresult'.issued : u \notin fresult.issued

\* The step stores a CSV file under a new session id
isUpload == fcall'.fn = "upload" /\ fresult'.issued # fresult.issued

\* The sessions earlier uploads of the same user made from the same rows
earlierUploads(rows, userId) ==
  {u \in fresult.issued :
     /\ u.rows = rows
     /\ startsWith(SessionIds[u.sessionId], sessionPrefix(OpUpload, userId))}

\* C17: when a user uploads a CSV file that the same user has uploaded before,
\* the session of the earlier upload holds after the upload what it held
\* before it, embeddings included, and the new session holds candidates of
\* its own.
C17_SessionsShareNothing ==
  [][isUpload =>
       /\ \A first \in earlierUploads(issuedNow.rows, fcall'.user) :
             getProfilesBySession(store', first.sessionId, fcall'.user)
               = getProfilesBySession(store, first.sessionId, fcall'.user)
       /\ Len(getProfilesBySession(store', issuedNow.sessionId, fcall'.user)) > 0]_vars

\* name and organization of a document, lower-cased and trimmed
namePair(doc) ==
  <<trim(toLowerCase(Pool[doc.id].name)), trim(toLowerCase(Pool[doc.id].company))>>

ownedIn(docs, sessionId, userId) ==
  {i \in 1..Len(docs) : docs[i].uploadSessionId = sessionId /\ docs[i].userId = userId}

\* C20: a clear request by the owner of a candidate that names the candidate's
\* session is accepted, and afterwards the store holds no candidate of that
\* session.
C20_OwnerCanClear ==
  [][(fcall'.fn = "clear" /\ fresult'.ops # fresult.ops
        /\ ownedIn(store, fcall'.sessionId, fcall'.user) # {})
       => /\ fresult'.status = 200
          /\ ownedIn(store', fcall'.sessionId, fcall'.user) = {}]_vars
-----------------------------------------------------------------------------
(* The cosine                                                               *)

CosineReturned == fresult.fn = "cosineSimilarity" /\ ~fresult.threw

\* x is floor(Scale * d / sqrt(n)) for an integer d and n > 0
isScaledQuotient(x, d, n) ==
  IF d >= 0
  THEN /\ x >= 0
       /\ x * x * n <= Scale * Scale * d * d
       /\ (x + 1) * (x + 1) * n > Scale * Scale * d * d
  ELSE /\ x < 0
       /\ x * x * n >= Scale * Scale * d * d
       /\ (x + 1) * (x + 1) * n < Scale * Scale * d * d

-----------------------------------------------------------------------------
(* The history of matches                                                   *)

\* C22: a match record stored in a user's history is never changed or lost,
\* and each new record that a save request accepts is appended: every write
\* leaves the old history as a prefix of the new one, and a request that set
\* the matches leaves the old history with its record appended.
C22_HistoryOnlyGrows ==
  [][\A u \in 1..Len(UserIds) :
       LET old == users[u].matches
           new == users'[u].matches
       IN  /\ Len(new) >= Len(old)
           /\ SubSeq(new, 1, Len(old)) = old
           /\ \A r \in Requests :
                (req[r].pc \in {"updating", "inserting"} /\ req'[r].pc = "done"
                   /\ req'[r].status = 200 /\ req[r].user = u /\ req[r].setsMatches)
                  => new = Append(old, req[r].newMatch)]_vars

-----------------------------------------------------------------------------
(* The order of the ranking                                                 *)

\* The candidate at position i of the input stands for its key (no earlier
\* occurrence of the key carries an embedding) and meets the threshold
ranked(i) ==
  LET profiles == fcall.profiles
  IN  /\ Len(profiles[i].embedding) > 0
      /\ \A j \in 1..(i - 1) :
           profileKey(profiles[j]) = profileKey(profiles[i])
             => Len(profiles[j].embedding) = 0
      /\ cosineSimilarity(fcall.missionEmbedding, profiles[i].embedding)
           >= fcall.minSimilarity

\* The place of position i in the order: similarity descending, input order
\* among equal similarities
placeOf(i) ==
  LET sim(k) == cosineSimilarity(fcall.missionEmbedding, fcall.profiles[k].embedding)
  IN  1 + Cardinality({j \in 1..Len(fcall.profiles) :
                         /\ ranked(j)
                         /\ sim(j) > sim(i) \/ (sim(j) = sim(i) /\ j < i)})

\* C23: the ranker's output is ordered by similarity descending, candidates of
\* equal similarity in their input order, and it is the first topN elements of
\* that order over the deduplicated candidates that meet the threshold.
C23_StableDescendingPrefix ==
  RankReturned =>
    LET eligible == {i \in 1..Len(fcall.profiles) : ranked(i)}
    IN  /\ Len(fresult.matches) = Min({fcall.topN, Cardinality(eligible)})
        /\ \A i \in eligible :
             placeOf(i) <= fcall.topN =>
               /\ fresult.matches[placeOf(i)].id = fcall.profiles[i].id
               /\ fresult.matches[placeOf(i)].similarity =
                    cosineSimilarity(fcall.missionEmbedding, fcall.profiles[i].embedding)

\* C23 witness: three candidates of equal similarity (the mission vector is
\* zero) in the input order 5, 4, 6 and topN = 2: the output is 5, 4.
C23_Witness ==
  /\ RankReturned
  /\ fcall.topN = 2
  /\ [i \in 1..Len(fcall.profiles) |-> fcall.profiles[i].id] = <<5, 4, 6>>
  /\ [i \in 1..Len(fresult.matches) |-> fresult.matches[i].id] = <<5, 4>>

-----------------------------------------------------------------------------
(* The primary industry                                                     *)

\* The number of keywords of industry k that occur in the mission of the call
hitsOf(k) == industryMatches(toLowerCase(fcall.mission), k)

\* The score of the profile of the call without its industry part
scoreWithoutIndustry ==
  LET profile == fcall.profile
      profileText == toLowerCase(profile.title \o Space \o profile.company \o Space
                                 \o profile.industry \o Space \o profile.summary)
      inText(keyword) == includes(profileText, keyword)
      location == toLowerCase(profile.location)
      nearLocation(keyword) == includes(location, keyword) \/ includes(keyword, location)
  IN  2 * countWhere(roleKeywords, inText) + 2 * countWhere(companyKeywords, inText)
      + (IF profile.location = <<>> THEN 0
         ELSE countWhere(missionKeywords(fcall.mission), nearLocation))

\* C24: the primary industry is the category with the most keyword hits in the
\* mission, the first-declared one among those tied for the most, and none
\* when no category has a hit; with no primary industry the role, company and
\* location scores still make up the score of a candidate.
C24_PrimaryIndustryChoice ==
  fresult.fn = "scoreProfile" =>
    LET industries == 1..Len(industryKeywords)
        most == Max({hitsOf(k) : k \in industries})
    IN  /\ most = 0 => fresult.primaryIndustry = 0
        /\ most > 0 =>
             fresult.primaryIndustry = Min({k \in industries : hitsOf(k) = most})
        /\ fresult.primaryIndustry = 0 => fresult.textScore = scoreWithoutIndustry

\* C24 witness: technology and marketing are tied with one hit each, and
\* technology, declared first, is chosen.
C24_Witness ==
  /\ fresult.fn = "scoreProfile"
  /\ hitsOf(2) = 1 /\ hitsOf(6) = 1
  /\ \A k \in 1..Len(industryKeywords) : hitsOf(k) <= 1
  /\ fresult.primaryIndustry = 2

\* C24, second witness: no category has a hit and the candidate still scores.
C24_WitnessNone ==
  /\ fresult.fn = "scoreProfile"
  /\ fresult.primaryIndustry = 0
  /\ fresult.textScore > 0

-----------------------------------------------------------------------------
(* Searches and clears touch the caller's candidates only                   *)

\* The load of a search returns only candidates stored with the session id of
\* the request and with its user as owner
loadsOwnOnly ==
  \A r \in Requests :
    (req[r].pc = "loading" /\ req'[r].pc # "loading") =>
      \A i \in 1..Len(req'[r].profiles) :
        \E k \in 1..Len(store) :
          /\ store[k].id = req'[r].profiles[i].id
          /\ store[k].userId = req[r].user
          /\ store[k].uploadSessionId = req[r].sessionId

\* A step removes only candidates stored with the session id of the clear
\* request that is answered in the step, and with its user as owner
clearsOwnOnly ==
  \A k \in 1..Len(store) :
    (\A j \in 1..Len(store') : store'[j].id # store[k].id \/ store'[j].userId # store[k].userId)
      => /\ fcall'.fn = "clear" /\ fresult'.ops = fresult.ops + 1
         /\ store[k].userId = fcall'.user
         /\ store[k].uploadSessionId = fcall'.sessionId

\* A search that has left the checks of its body behind, and a clear that has
\* touched the store, came with a session id of the caller's
accessImpliesOwned ==
  /\ \A r \in Requests :
       req'[r].pc \notin {"idle", "done"} => ownsSession(req'[r].sessionId, req'[r].user)
  /\ store' # store /\ fcall'.fn = "clear" /\ fresult'.ops = fresult.ops + 1
       => ownsSession(fcall'.sessionId, fcall'.user)

\* C25 as stated: every request with a session id that is not the caller's is
\* answered 403 before any store access, and a search or a clear returns or
\* deletes only candidates with the session id and the caller as owner.
C25_ForeignSessionAnswered403 ==
  [][/\ loadsOwnOnly /\ clearsOwnOnly /\ accessImpliesOwned
     /\ \A r \in Requests :
          (req[r].pc = "idle" /\ req'[r].pc # "idle"
             /\ ~ownsSession(req'[r].sessionId, req'[r].user))
            => req'[r].pc = "done" /\ req'[r].response.status = 403
     /\ (fcall'.fn = "clear" /\ fresult'.ops = fresult.ops + 1
           /\ ~ownsSession(fcall'.sessionId, fcall'.user))
          => fresult'.status = 403]_vars

\* C25: a request with a session id that is not the caller's is rejected before
\* any store access, with 403 unless its body has failed validation before
\* (the mission or a missing session id of a search, the session id of a
\* clear), which is answered 400; a search or a clear returns or deletes only
\* candidates with the session id and the caller as owner.
C25_ForeignSessionRejected ==
  [][/\ loadsOwnOnly /\ clearsOwnOnly /\ accessImpliesOwned
     /\ \A r \in Requests :
          (req[r].pc = "idle" /\ req'[r].pc # "idle"
             /\ ~ownsSession(req'[r].sessionId, req'[r].user))
            => /\ req'[r].pc = "done"
               /\ req'[r].response.status =
                    IF ~validMissionOf[req'[r].mission]
                         \/ SessionIds[req'[r].sessionId] = <<>>
                    THEN 400 ELSE 403
     /\ (fcall'.fn = "clear" /\ fresult'.ops = fresult.ops + 1
           /\ ~ownsSession(fcall'.sessionId, fcall'.user))
          => fresult'.status = IF ~validSessionIdOf[fcall'.sessionId] THEN 400 ELSE 403]_vars

\* C25 witness: user 'u1' has searched and cleared with 'upload-u1-2-1', the
\* session of user 'u1-2', and the candidates of that session are still stored.
C25_Witness ==
  /\ req[1].handler = "search" /\ req[1].sessionId = 6 /\ req[1].pc = "done"
  /\ req[1].response.status = 400 /\ req[1].response.kind = "noProfiles"
  /\ fcall.fn = "clear" /\ fcall.sessionId = 6 /\ fresult.status = 200
  /\ \E k \in 1..Len(store) : store[k].uploadSessionId = 6 /\ store[k].userId = 3

-----------------------------------------------------------------------------
(* Persisted embeddings and interleaved match requests                      *)

-----------------------------------------------------------------------------
(* After the timeout response                                               *)

\* C27: once the timeout response has been returned to the caller, the request
\* issues no further embedding or text-generation call and writes nothing more
\* to the candidate store.
C27_NoWorkAfterTimeout ==
  [][\A r \in Requests :
       req[r].timedOut =>
         /\ req'[r].embeddingCalls.issued = req[r].embeddingCalls.issued
         /\ req'[r].chatCalls.issued = req[r].chatCalls.issued
         /\ req'[r].storeWrites = req[r].storeWrites]_vars

-----------------------------------------------------------------------------
(* A stored vector of another length                                        *)

\* The search of request r has ranked, and one of its candidates carries a
\* vector whose length is not that of the mission vector
rankedWithOddVector(r) ==
  /\ req[r].handler = "search" /\ req[r].pc = "done"
  /\ req[r].missionEmbedding # <<>>
  /\ \E i \in 1..Len(req[r].topCandidates) :
       /\ hasEmbedding(req[r].topCandidates[i])
       /\ Len(req[r].topCandidates[i].embedding) # Len(req[r].missionEmbedding)

\* C28: a candidate whose stored embedding has another length than the mission
\* embedding does not abort the search: the response is not an error, and its
\* matches are among the remaining candidates.
C28_OddVectorSkipped ==
  \A r \in Requests :
    rankedWithOddVector(r) =>
      /\ req[r].response.status # 500
      /\ \A m \in 1..Len(req[r].response.matches) :
           \E i \in 1..Len(req[r].topCandidates) :
             /\ req[r].topCandidates[i].id = req[r].response.matches[m].id
             /\ Len(req[r].topCandidates[i].embedding) = Len(req[r].missionEmbedding)

-----------------------------------------------------------------------------
(* The rate limit                                                           *)

\* The window of an identifier and a configuration after the first n calls, as
\* the claim counts it: a call after the resetTime of the window (or the first
\* call) starts a window, and allowed is the number of calls of the identifier
\* with the configuration that were allowed in the window
RECURSIVE windowAfter(_, _, _, _)
windowAfter(calls, n, identifier, name) ==
  IF n = 0 THEN [open |-> FALSE, resetTime |-> 0, allowed |-> 0]
  ELSE LET before == windowAfter(calls, n - 1, identifier, name)
           call == calls[n]
       IN  IF call.identifier # identifier \/ call.config # name THEN before
           ELSE IF ~before.open \/ call.now > before.resetTime
           THEN [open |-> TRUE, resetTime |-> call.now + RATE_LIMITS[name].windowMs,
                 allowed |-> IF call.isAllowed THEN 1 ELSE 0]
           ELSE [before EXCEPT !.allowed = @ + (IF call.isAllowed THEN 1 ELSE 0)]

\* The number of calls allowed so far in the window that a call at time now
\* falls into
allowedInWindow(calls, n, identifier, name, now) ==
  LET window == windowAfter(calls, n, identifier, name)
  IN  IF ~window.open \/ now > window.resetTime THEN 0 ELSE window.allowed

\* C29: checkRateLimit allows a call exactly when fewer than maxRequests calls
\* with the same identifier and the same configuration have been allowed in
\* the current window, whatever calls were made with other configurations, and
\* the remaining count it returns is never negative.
C29_AllowedIffUnderLimit ==
  fresult.fn = "checkRateLimit" =>
    LET n == Len(fresult.calls)
        last == fresult.calls[n]
    IN  /\ fresult.isAllowed <=>
             allowedInWindow(fresult.calls, n - 1, last.identifier, last.config, last.now)
               < RATE_LIMITS[last.config].maxRequests
        /\ fresult.remaining >= 0

-----------------------------------------------------------------------------
(* The composite key                                                        *)

\* The lowercase-trimmed name and organization of record id
identityOf(id) ==
  <<trim(toLowerCase(Pool[id].name)), trim(toLowerCase(Pool[id].company))>>

\* C30: the composite key is injective on identities: two profiles of one user
\* have the same key only if their lowercase-trimmed names and organizations
\* are equal, two profiles of different users never have the same key, and so
\* saving a profile never replaces the profile of a different person.
C30_KeyInjective ==
  fresult.fn = "addProfile" =>
    LET first == fcall.first
        second == fcall.second
        samePerson == first.user = second.user /\ identityOf(first.id) = identityOf(second.id)
    IN  /\ uniqueKey(first.user, first.id) = uniqueKey(second.user, second.id) => samePerson
        /\ ~samePerson => Len(fresult.docs) = 2
=============================================================================
